---- MODULE Spec2Model ----
(***************************************************************************)
(* ZenithFlowAPI: booking, session management, ratings and billing.        *)
(*                                                                         *)
(* The relational store is modelled as sets of rows and per-row columns.   *)
(* Every HTTP request is served by a worker (a slot of `req`); a handler   *)
(* is a sequence of steps, one per SQL statement it issues, and steps of   *)
(* different workers interleave freely (the handlers open no transaction   *)
(* and take no lock).  A handler works on the model instances it has read: *)
(* saving an instance writes every column of the row from the instance.    *)
(* A read of a row that no operation of the workflow at hand writes (the   *)
(* session row of an enroll or rate request) is folded into the step that  *)
(* follows it.  The post_save signal of a session runs after the save that *)
(* triggers it, in the same request, one step per statement.               *)
(* A finished request keeps its response in its slot until Respond frees   *)
(* the slot.  Amounts of money are counted in hundredths, time in days.    *)
(***************************************************************************)
EXTENDS Integers, FiniteSets, Sequences, TLC

(***************************************************************************)
(* Universe and bounds                                                     *)
(***************************************************************************)
\* Regular users (create_user) and instructors (create_superuser, is_staff).
RegularUsers == {"u1", "u2"}
Instructors == {"i1", "i2"}
Users == RegularUsers \cup Instructors

\* The users of the booking workflows: the regular users and the instructor
\* who owns the stored sessions.
Bookers == RegularUsers \cup {"i1"}

\* The sessions stored at set-up, and one id that matches no stored session.
Sessions == {"s1", "s2"}
MissingSession == "s9"
SessionIds == Sessions \cup {MissingSession}

\* Primary keys of MeditationSession rows, in the order they are handed out.
SessionKeys == <<"s1", "s2", "s3", "s4", "s5", "s6">>
\* Largest primary key handed out for MeditationSession rows.
MaxSessionId == 4
SessionPool == {SessionKeys[n] : n \in 1..MaxSessionId}

\* Request workers.
Workers == {"w1", "w2"}

\* Payload value of a field the request does not send.
Absent == "absent"

\* The "user" field a client may put in an enrollment payload.
PayloadUsers == {Absent, "u2"}

\* Largest primary key handed out for Enrollment rows.
MaxEnrollmentId == 3
\* Largest primary key handed out for Rating rows.
MaxRatingId == 2
\* max_participants of session s2 (s1 has a single seat).
MaxCapacity == 2

\* core/models.py: Rating.rating validators
MinRating == 1
MaxRating == 5

\* The base names a caller of MeditationSession.create may pass: one is a
\* prefix of the other.
BaseNames == {<<"A">>, <<"A", "B">>}

\* The names an owner may send in an update: one that looks like a generated
\* name and one that does not.
RenameInputs == {<<"A", " ", "#", "2">>, <<"B">>}

\* core/models.py: MeditationSession.max_participants default
DefaultMaxParticipants == 20

\* The durations an owner may send in an update, and the duration given
\* to MeditationSession.create.
DurationInputs == {3}
CreateDurations == {1}

\* Payloads of a session update (PATCH): a new name, a new max_participants,
\* a new duration, or a new name with a new duration; the empty name and -1
\* stand for a field not sent.
UpdateInputs ==
    {[name |-> nm, max_participants |-> -1, duration |-> -1] :
        nm \in RenameInputs}
    \cup {[name |-> <<>>, max_participants |-> mp, duration |-> -1] :
             mp \in {MaxCapacity}}
    \cup {[name |-> <<>>, max_participants |-> -1, duration |-> d] :
             d \in DurationInputs}
    \cup {[name |-> <<"B">>, max_participants |-> -1, duration |-> d] :
             d \in DurationInputs}

\* The technique names a client may send: the name of the technique stored
\* at set-up and one more.
TechniqueNames == {"t1", "t9"}

\* Largest primary key handed out for Technique rows.
MaxTechniqueId == 2

\* The names a client may post to /meditation_sessions/: one that looks
\* like a generated name and the bare base name.
PostNames == {<<"A", " ", "#", "2">>, <<"A">>}

\* core/models.py: Subscription.cost default (120.50), in hundredths
SubscriptionCost == 12050

\* user/views.py: timedelta(days=30), in days
SubscriptionDays == 30

\* The balances a user may hold at set-up, in hundredths: just below the
\* cost, exactly the cost, and enough for two purchases.
BalanceInputs == {SubscriptionCost - 1, SubscriptionCost, 2 * SubscriptionCost}

\* What float(amount) makes of the amount posted to add-funds: a finite
\* number (in hundredths: negative, zero, the price of one subscription),
\* nan, +inf, or an error (a text that is no number, or no amount at all).
AmountInputs ==
    {[kind |-> "finite", value |-> v] :
        v \in {0 - SubscriptionCost, 0, SubscriptionCost}}
    \cup {[kind |-> k, value |-> 0] : k \in {"nan", "inf", "invalid"}}

\* Largest balance add-funds requests are started for, in hundredths.
MaxBalance == 3 * SubscriptionCost

\* Largest primary key handed out for Subscription rows.
MaxSubscriptionId == 4

\* Purchases are started while every end_date is at most this day.
MaxEndDate == 60

\* The last day the clock reaches.
MaxNow == 32

\* Largest primary key handed out for InstructorRating rows.
MaxInstructorRatingId == 2

\* user/serializers.py: InstructorRatingSerializer.validate_comment
MinCommentLength == 6

\* The comment lengths a client may send: one too short, one long enough.
CommentInputs == {MinCommentLength - 1, MinCommentLength}

\* The payloads sent to update an instructor rating: both fields valid, a
\* rating out of range, a comment too short, another instructor; -1 and
\* Absent stand for a field not sent.
InstructorRatingUpdateInputs ==
    {[rating |-> MinRating, comment |-> MinCommentLength + 1,
      instructor |-> Absent],
     [rating |-> MaxRating + 1, comment |-> -1, instructor |-> Absent],
     [rating |-> -1, comment |-> MinCommentLength - 1,
      instructor |-> Absent],
     [rating |-> -1, comment |-> -1, instructor |-> "i2"]}

\* The scores a client may send: the two ends of the range and one value
\* outside on each side.
ScoreInputs == {MinRating - 1, MinRating, MaxRating, MaxRating + 1}

\* core/models.py: User.is_staff
is_staff(u) == u \in Instructors

\* str(n): the decimal digits of a natural number.
RECURSIVE str(_)
str(n) ==
    LET digit == <<"0", "1", "2", "3", "4", "5", "6", "7", "8", "9">> IN
    IF n < 10 THEN <<digit[n + 1]>>
    ELSE str(n \div 10) \o <<digit[(n % 10) + 1]>>

\* name__startswith: the stored name begins with the given characters.
startswith(full, prefix) ==
    /\ Len(prefix) <= Len(full)
    /\ SubSeq(full, 1, Len(prefix)) = prefix

\* Variant of generated_name that numbers from the count itself.
generated_name_from_count(name, count) == name \o <<" ", "#">> \o str(count)

\* MeditationSession.create: f"{name} #{count + 1}" (the branch for a count
\* of zero writes the same text).
generated_name(name, count) == name \o <<" ", "#">> \o str(count + 1)


VARIABLES
    enrollments,        \* Enrollment rows: [id, user, session]
    enrollment_seq,     \* next Enrollment primary key
    ratings,            \* Rating rows: [id, user, session, rating]
    rating_seq,         \* next Rating primary key
    is_completed,       \* MeditationSession.is_completed, per session
    max_participants,   \* MeditationSession.max_participants, per session
    subscriptions,      \* Subscription rows: [id, user, end_date, is_active]
    profile,            \* UserProfile rows, per regular user
    now,                \* timezone.now()
    stored,             \* primary keys of the stored MeditationSession rows
    session_seq,        \* next MeditationSession primary key
    session_name,       \* MeditationSession.name, per session
    session_instructor, \* MeditationSession.instructor, per session
    duration,           \* MeditationSession.duration, per session
    techniques,         \* MeditationSession.techniques, per session: the
                        \* primary keys of the linked Technique rows
    technique_rows,     \* Technique rows: [id, name, instructor]
    technique_seq,      \* next Technique primary key
    instructor_ratings, \* InstructorRating rows: [id, user, instructor, rating]
    instructor_rating_seq,  \* next InstructorRating primary key
    cash_balance,       \* User.cash_balance, per user, in hundredths
    subscription_seq,   \* next Subscription primary key
    expired,            \* rows the running sweep has read and not yet saved
    req                 \* request workers

\* The columns of MeditationSession kept outside is_completed and
\* max_participants, and the Technique table.
sessionvars == <<stored, session_seq, session_name, session_instructor,
                 duration, techniques, technique_rows, technique_seq>>

instructor_ratingvars == <<instructor_ratings, instructor_rating_seq>>

accountvars == <<cash_balance, subscription_seq, expired>>

vars == <<enrollments, enrollment_seq, ratings, rating_seq, is_completed,
          max_participants, subscriptions, profile, now, sessionvars,
          instructor_ratingvars, accountvars, req>>

dbvars == <<enrollments, enrollment_seq, ratings, rating_seq, is_completed,
            max_participants, subscriptions, profile, now, sessionvars,
            instructor_ratingvars, accountvars>>

\* core/models.py: MeditationSession.instructor
instructor(s) == session_instructor[s]

(***************************************************************************)
(* Request workers                                                         *)
(***************************************************************************)
\* The model instance a handler holds when it has read no session row.
NoInstance == [name |-> <<>>, max_participants |-> 0, is_completed |-> FALSE,
               instructor |-> Absent, duration |-> 0]

\* The value a handler holds when it has read no Subscription row.
NoSubscription == [id |-> 0, user |-> Absent, end_date |-> 0,
                   is_active |-> FALSE]

\* The value a handler holds when it has read no Technique row.
NoTechnique == [id |-> 0, name |-> Absent, instructor |-> Absent]

\* The value a handler holds when it has read no Rating row.
NoRating == [id |-> 0, user |-> Absent, session |-> Absent, rating |-> 0]

\* The value a handler holds when it has read no InstructorRating row.
NoInstructorRating == [id |-> 0, user |-> Absent, instructor |-> Absent,
                       rating |-> 0, comment |-> 0]

Idle == [op |-> "none", pc |-> "idle", user |-> Absent, session |-> Absent,
         pk |-> 0, score |-> 0, payload_user |-> Absent, result |-> "none",
         name |-> <<>>, max_participants |-> 0, technique |-> Absent,
         instructor |-> Absent, comment |-> 0, instance |-> NoInstance,
         balance |-> 0, subscription |-> NoSubscription, amount |-> 0,
         amount_kind |-> "finite", numeric |-> FALSE,
         rating_instance |-> NoRating,
         instructor_rating_instance |-> NoInstructorRating,
         payload_instructor |-> Absent, technique_instance |-> NoTechnique,
         duration |-> 0, prefetched |-> {}, sessions_attended |-> 0,
         total_time_spent |-> 0, payload_valid |-> FALSE,
         payload_password |-> FALSE, profile_owner |-> Absent]

\* The response of a request: the handler is over.
Done(r, res) == [req[r] EXCEPT !.pc = "done", !.result = res, !.score = 0,
                               !.comment = 0, !.instance = NoInstance,
                               !.balance = 0,
                               !.subscription = NoSubscription,
                               !.amount = 0, !.amount_kind = "finite",
                               !.numeric = FALSE, !.duration = 0,
                               !.rating_instance = NoRating,
                               !.instructor_rating_instance =
                                   NoInstructorRating,
                               !.payload_instructor = Absent,
                               !.technique_instance = NoTechnique,
                               !.prefetched = {}, !.sessions_attended = 0,
                               !.total_time_spent = 0,
                               !.payload_valid = FALSE,
                               !.payload_password = FALSE]

Goto(r, label) == [req[r] EXCEPT !.pc = label]

At(r, op, label) == req[r].op = op /\ req[r].pc = label

InFlight(op) == Cardinality({r \in Workers : req[r].op = op /\ req[r].pc # "done"})

(***************************************************************************)
(* Queries                                                                 *)
(***************************************************************************)
\* session.enrollments.count()
enrollments_count(s) == Cardinality({e \in enrollments : e.session = s})

\* user/utils.py: user.subscription.filter(is_active=True).first()
get_active_subscription(u) ==
    {sub \in subscriptions : sub.user = u /\ sub.is_active}

\* meditation_session/utils.py: imported by the enrollment view and not
\* defined in that file.  What the repository shows of it: the enrollment
\* tests create no Subscription row for the requester and the enrollment is
\* stored (test_create_enrollment), so a user without any Subscription row
\* passes.  For a user who has Subscription rows the repository shows
\* nothing, and the gate is taken from the specification: it passes when
\* one of the rows has is_active set, which is what the caller's refusal
\* "You need an active subscription" is about.
check_user_subscription(u) ==
    \/ {sub \in subscriptions : sub.user = u} = {}
    \/ get_active_subscription(u) # {}

\* Variant of unique_user_session for a table without the constraint.
unique_user_session_absent(u, s) == TRUE

\* The storage-level UniqueConstraint(fields=["user", "session"]).
unique_user_session(u, s) ==
    ~ \E e \in enrollments : e.user = u /\ e.session = s

(***************************************************************************)
(* enroll: POST /enrollments/                                              *)
(***************************************************************************)
EnrollStart(r, u, s, pu) ==
    /\ req[r].pc = "idle"
    /\ enrollment_seq + InFlight("enroll") <= MaxEnrollmentId
    /\ req' = [req EXCEPT ![r] = [Idle EXCEPT !.op = "enroll",
                 !.pc = "validate", !.user = u, !.session = s,
                 !.payload_user = pu]]
    /\ UNCHANGED dbvars

\* EnrollmentDetailSerializer.validate: the session is fetched with
\* objects.get (DoesNotExist is not an API exception) and the capacity is
\* compared with the current count.
Enrollment_validate(r) ==
    /\ At(r, "enroll", "validate")
    /\ LET s == req[r].session IN
       req' = [req EXCEPT ![r] =
                 IF s \notin stored THEN Done(r, "SERVER_ERROR")
                 ELSE IF enrollments_count(s) >= max_participants[s]
                      THEN Done(r, "SESSION_FULL")
                      ELSE Goto(r, "perform_create")]
    /\ UNCHANGED dbvars

\* EnrollmentViewSet.perform_create, up to the save.
Enrollment_perform_create(r) ==
    /\ At(r, "enroll", "perform_create")
    /\ req' = [req EXCEPT ![r] =
                 IF req[r].session \notin stored THEN Done(r, "NOT_FOUND")
                 ELSE IF ~ check_user_subscription(req[r].user)
                      THEN Done(r, "SUBSCRIPTION_REQUIRED")
                      ELSE Goto(r, "save")]
    /\ UNCHANGED dbvars

\* Variant of Enrollment_save that lets the IntegrityError escape.
Enrollment_save_uncaught(r) ==
    /\ At(r, "enroll", "save")
    /\ LET u == req[r].user
           s == req[r].session IN
       IF unique_user_session(u, s)
       THEN /\ enrollments' = enrollments \cup
                   {[id |-> enrollment_seq, user |-> u, session |-> s]}
            /\ enrollment_seq' = enrollment_seq + 1
            /\ req' = [req EXCEPT ![r] =
                         [Done(r, "CREATED") EXCEPT !.pk = enrollment_seq]]
       ELSE /\ req' = [req EXCEPT ![r] = Done(r, "SERVER_ERROR")]
            /\ UNCHANGED <<enrollments, enrollment_seq>>
    /\ UNCHANGED <<ratings, rating_seq, is_completed, max_participants,
                   subscriptions, profile, now, sessionvars,
                   instructor_ratingvars, accountvars>>

\* Variant of Enrollment_save that takes the user from the payload when the
\* payload names one.
Enrollment_save_payload_user(r) ==
    /\ At(r, "enroll", "save")
    /\ LET u == IF req[r].payload_user = Absent THEN req[r].user
                ELSE req[r].payload_user
           s == req[r].session IN
       IF unique_user_session(u, s)
       THEN /\ enrollments' = enrollments \cup
                   {[id |-> enrollment_seq, user |-> u, session |-> s]}
            /\ enrollment_seq' = enrollment_seq + 1
            /\ req' = [req EXCEPT ![r] =
                         [Done(r, "CREATED") EXCEPT !.pk = enrollment_seq]]
       ELSE /\ req' = [req EXCEPT ![r] = Done(r, "ALREADY_ENROLLED")]
            /\ UNCHANGED <<enrollments, enrollment_seq>>
    /\ UNCHANGED <<ratings, rating_seq, is_completed, max_participants,
                   subscriptions, profile, now, sessionvars,
                   instructor_ratingvars, accountvars>>

\* serializer.save(user=request.user, session=session); IntegrityError is
\* turned into a validation error.
Enrollment_save(r) ==
    /\ At(r, "enroll", "save")
    /\ LET u == req[r].user
           s == req[r].session IN
       IF unique_user_session(u, s)
       THEN /\ enrollments' = enrollments \cup
                   {[id |-> enrollment_seq, user |-> u, session |-> s]}
            /\ enrollment_seq' = enrollment_seq + 1
            /\ req' = [req EXCEPT ![r] =
                         [Done(r, "CREATED") EXCEPT !.pk = enrollment_seq]]
       ELSE /\ req' = [req EXCEPT ![r] = Done(r, "ALREADY_ENROLLED")]
            /\ UNCHANGED <<enrollments, enrollment_seq>>
    /\ UNCHANGED <<ratings, rating_seq, is_completed, max_participants,
                   subscriptions, profile, now, sessionvars,
                   instructor_ratingvars, accountvars>>

(***************************************************************************)
(* unenroll: DELETE /enrollments/<pk>/                                     *)
(***************************************************************************)
UnenrollStart(r, u, pk) ==
    /\ req[r].pc = "idle"
    /\ req' = [req EXCEPT ![r] = [Idle EXCEPT !.op = "unenroll",
                 !.pc = "get_object", !.user = u, !.pk = pk]]
    /\ UNCHANGED dbvars

\* Variant of Enrollment_get_queryset that forgets the filter on the user.
Enrollment_get_queryset_all(u) == enrollments

\* EnrollmentViewSet.get_queryset: only the requester's own rows.
Enrollment_get_queryset(u) == {e \in enrollments : e.user = u}

\* get_object over get_queryset: 404 when the pk is not among them.
Enrollment_get_object(r) ==
    /\ At(r, "unenroll", "get_object")
    /\ req' = [req EXCEPT ![r] =
                 IF \E e \in Enrollment_get_queryset(req[r].user) :
                        e.id = req[r].pk
                 THEN Goto(r, "destroy")
                 ELSE Done(r, "NOT_FOUND")]
    /\ UNCHANGED dbvars

\* DestroyModelMixin.perform_destroy: instance.delete()
Enrollment_destroy(r) ==
    /\ At(r, "unenroll", "destroy")
    /\ enrollments' = {e \in enrollments : e.id # req[r].pk}
    /\ req' = [req EXCEPT ![r] = Done(r, "NO_CONTENT")]
    /\ UNCHANGED <<enrollment_seq, ratings, rating_seq, is_completed,
                   max_participants, subscriptions, profile, now, sessionvars,
                   instructor_ratingvars, accountvars>>

(***************************************************************************)
(* complete_session: PATCH /meditation_sessions/<pk>/complete-session/     *)
(***************************************************************************)
CompleteStart(r, u, s) ==
    /\ req[r].pc = "idle"
    /\ req' = [req EXCEPT ![r] = [Idle EXCEPT !.op = "complete",
                 !.pc = "get_object", !.user = u, !.session = s]]
    /\ UNCHANGED dbvars

\* Variant of check_user_is_creator_session that lets every user pass.
check_user_is_creator_session_anyone(u, s) == TRUE

\* meditation_session/utils.py: check_user_is_creator, for a session.
check_user_is_creator_session(u, s) == instructor(s) = u

\* meditation_session/utils.py: check_user_is_creator, for a rating.
check_user_is_creator_rating(u, rt) == rt.user = u

\* get_object: the MeditationSession row as the handler reads it.
session_row(s) == [name |-> session_name[s],
                   max_participants |-> max_participants[s],
                   is_completed |-> is_completed[s],
                   instructor |-> session_instructor[s],
                   duration |-> duration[s]]

\* Variant of name_unique for a table without the unique index on name.
name_unique_absent(s, nm) == TRUE

\* core/models.py: MeditationSession.name is unique.
name_unique(s, nm) == ~ \E x \in stored \ {s} : session_name[x] = nm

\* get_object of complete_session: the session row is read.
Complete_get_object(r) ==
    /\ At(r, "complete", "get_object")
    /\ req' = [req EXCEPT ![r] =
                 IF req[r].session \notin stored THEN Done(r, "NOT_FOUND")
                 ELSE [Goto(r, "prefetch") EXCEPT
                          !.instance = session_row(req[r].session)]]
    /\ UNCHANGED dbvars

\* prefetch_related("enrollments__user"): the enrollments of the session
\* are read into the instance; then the ownership check of complete_session
\* on the row read.
Complete_prefetch(r) ==
    /\ At(r, "complete", "prefetch")
    /\ req' = [req EXCEPT ![r] =
                 IF req[r].instance.instructor # req[r].user
                 THEN Done(r, "FORBIDDEN")
                 ELSE [Goto(r, "save") EXCEPT !.prefetched =
                          {e \in enrollments : e.session = req[r].session}]]
    /\ UNCHANGED dbvars

\* Model.save() of a session instance: every column is written from the
\* instance (UPDATE, or INSERT when the row is gone); a name held by another
\* row is refused by the unique index.
session_save(s, row) ==
    /\ stored' = stored \cup {s}
    /\ session_name' = [session_name EXCEPT ![s] = row.name]
    /\ max_participants' = [max_participants EXCEPT
                               ![s] = row.max_participants]
    /\ session_instructor' = [session_instructor EXCEPT
                                 ![s] = row.instructor]
    /\ is_completed' = [is_completed EXCEPT ![s] = row.is_completed]
    /\ duration' = [duration EXCEPT ![s] = row.duration]

\* The step of a handler after its session.save(): the post_save signal
\* walks instance.enrollments.all(), the rows prefetched by get_object, when
\* the saved instance is completed.
AfterSessionSave(r, row) ==
    IF row.is_completed /\ req[r].prefetched # {}
    THEN Goto(r, "signal_profile")
    ELSE Done(r, "OK")

\* session.is_completed = True; session.save()
Complete_save(r) ==
    /\ At(r, "complete", "save")
    /\ LET s == req[r].session
           row == [req[r].instance EXCEPT !.is_completed = TRUE] IN
       IF ~ name_unique(s, row.name)
       THEN /\ req' = [req EXCEPT ![r] = Done(r, "SERVER_ERROR")]
            /\ UNCHANGED <<is_completed, max_participants, stored,
                           session_name, session_instructor, duration>>
       ELSE /\ session_save(s, row)
            /\ req' = [req EXCEPT ![r] = AfterSessionSave(r, row)]
    /\ UNCHANGED <<enrollments, enrollment_seq, ratings, rating_seq,
                   subscriptions, profile, now, session_seq, techniques,
                   technique_rows, technique_seq,
                   instructor_ratingvars, accountvars>>

(***************************************************************************)
(* core/signals.py: update_profile_on_session_completion                   *)
(***************************************************************************)
\* The enrollment the walk stands at: the prefetched rows are visited in
\* primary-key order.
CurrentEnrollment(r) ==
    CHOOSE e \in req[r].prefetched :
        \A other \in req[r].prefetched : e.id <= other.id

\* The enrollments of a user in completed sessions, as stored now.
complete_session(u) ==
    {e \in enrollments : e.user = u /\ is_completed[e.session]}

\* enrollment.user.user_profile: the profile of the enrolled user is read;
\* a staff user has none and RelatedObjectDoesNotExist ends the request.
Signal_user_profile(r) ==
    /\ req[r].pc = "signal_profile"
    /\ req' = [req EXCEPT ![r] =
                 IF is_staff(CurrentEnrollment(r).user)
                 THEN Done(r, "SERVER_ERROR")
                 ELSE Goto(r, "signal_count")]
    /\ UNCHANGED dbvars

\* update_sessions_and_time: complete_session.count()
Signal_count(r) ==
    /\ req[r].pc = "signal_count"
    /\ req' = [req EXCEPT ![r] =
                 [Goto(r, "signal_sum") EXCEPT !.sessions_attended =
                     Cardinality(complete_session(CurrentEnrollment(r).user))]]
    /\ UNCHANGED dbvars

\* The sum of the durations of the sessions of a set of enrollments.
RECURSIVE sum_duration(_)
sum_duration(S) ==
    IF S = {} THEN 0
    ELSE LET e == CHOOSE x \in S : TRUE
         IN duration[e.session] + sum_duration(S \ {e})

\* update_sessions_and_time: the sum over a second evaluation of
\* complete_session.
Signal_sum(r) ==
    /\ req[r].pc = "signal_sum"
    /\ req' = [req EXCEPT ![r] =
                 [Goto(r, "signal_save") EXCEPT !.total_time_spent =
                     sum_duration(complete_session(CurrentEnrollment(r).user))]]
    /\ UNCHANGED dbvars

\* update_sessions_and_time: self.save(); the walk goes on to the next
\* enrollment, and after the last one the handler answers.
Signal_save(r) ==
    /\ req[r].pc = "signal_save"
    /\ LET e == CurrentEnrollment(r)
           rest == req[r].prefetched \ {e} IN
       /\ profile' = [profile EXCEPT ![e.user] =
                         [sessions_attended |-> req[r].sessions_attended,
                          total_time_spent |-> req[r].total_time_spent]]
       /\ req' = [req EXCEPT ![r] =
                    IF rest = {} THEN Done(r, "OK")
                    ELSE [Goto(r, "signal_profile") EXCEPT
                             !.prefetched = rest]]
    /\ UNCHANGED <<enrollments, enrollment_seq, ratings, rating_seq,
                   is_completed, max_participants, subscriptions, now,
                   sessionvars, instructor_ratingvars, accountvars>>

SignalSteps ==
    \/ \E r \in Workers : Signal_user_profile(r)
    \/ \E r \in Workers : Signal_count(r)
    \/ \E r \in Workers : Signal_sum(r)
    \/ \E r \in Workers : Signal_save(r)

(***************************************************************************)
(* profile update: PUT/PATCH /user/<pk>/profile/ and .../upload-avatar/    *)
(***************************************************************************)
\* owner is the user whose profile has the key of the url; valid tells
\* whether the serializer accepts the fields sent (biography, avatar).
ProfileUpdateStart(r, u, owner, valid) ==
    /\ req[r].pc = "idle"
    /\ req' = [req EXCEPT ![r] = [Idle EXCEPT !.op = "profile_update",
                 !.pc = "get_object", !.user = u, !.profile_owner = owner,
                 !.payload_valid = valid]]
    /\ UNCHANGED dbvars

\* get_object over get_queryset: the profile with the key of the url is
\* looked for among the profiles of the requester (a staff user has none),
\* and the row is read with the statistics it holds now.
ProfileUpdate_get_object(r) ==
    /\ At(r, "profile_update", "get_object")
    /\ LET u == req[r].user IN
       req' = [req EXCEPT ![r] =
                 IF is_staff(u) \/ req[r].profile_owner # u
                 THEN Done(r, "NOT_FOUND")
                 ELSE [Goto(r, "perform_update") EXCEPT
                          !.sessions_attended = profile[u].sessions_attended,
                          !.total_time_spent = profile[u].total_time_spent]]
    /\ UNCHANGED dbvars

\* serializer.is_valid, then perform_update: the check of the requester and
\* serializer.save(), whose instance.save() writes every column of the row
\* as get_object read it, the two statistics included.
ProfileUpdate_perform_update(r) ==
    /\ At(r, "profile_update", "perform_update")
    /\ IF ~ req[r].payload_valid
       THEN /\ req' = [req EXCEPT ![r] = Done(r, "BAD_REQUEST")]
            /\ UNCHANGED profile
       ELSE IF req[r].user # req[r].profile_owner
       THEN /\ req' = [req EXCEPT ![r] = Done(r, "FORBIDDEN")]
            /\ UNCHANGED profile
       ELSE /\ profile' = [profile EXCEPT ![req[r].user] =
                              [sessions_attended |-> req[r].sessions_attended,
                               total_time_spent |-> req[r].total_time_spent]]
            /\ req' = [req EXCEPT ![r] = Done(r, "OK")]
    /\ UNCHANGED <<enrollments, enrollment_seq, ratings, rating_seq,
                   is_completed, max_participants, subscriptions, now,
                   sessionvars, instructor_ratingvars, accountvars>>

(***************************************************************************)
(* rate_session: POST /sessions/<session_id>/ratings/                      *)
(***************************************************************************)
RateStart(r, u, s, score) ==
    /\ req[r].pc = "idle"
    /\ rating_seq + InFlight("rate") <= MaxRatingId
    /\ req' = [req EXCEPT ![r] = [Idle EXCEPT !.op = "rate",
                 !.pc = "validate", !.user = u, !.session = s,
                 !.score = score]]
    /\ UNCHANGED dbvars

\* The field validators of Rating.rating.
valid_rating(score) == MinRating <= score /\ score <= MaxRating

\* RatingSerializer.validate, first query: the field validators have run,
\* the session is fetched with objects.get, the enrollment is looked up.
Rating_validate(r) ==
    /\ At(r, "rate", "validate")
    /\ LET u == req[r].user
           s == req[r].session IN
       req' = [req EXCEPT ![r] =
                 IF ~ valid_rating(req[r].score) THEN Done(r, "INVALID_SCORE")
                 ELSE IF s \notin stored THEN Done(r, "SERVER_ERROR")
                 ELSE IF ~ \E e \in enrollments :
                             e.user = u /\ e.session = s
                      THEN Done(r, "NOT_ENROLLED")
                      ELSE Goto(r, "validate_rating")]
    /\ UNCHANGED dbvars

\* Variant of Rating_validate_rating that forgets the instructor test.
Rating_validate_rating_no_instructor(r) ==
    /\ At(r, "rate", "validate_rating")
    /\ req' = [req EXCEPT ![r] =
                 IF \E rt \in ratings : rt.user = req[r].user
                                          /\ rt.session = req[r].session
                 THEN Done(r, "DUPLICATE_RATING")
                 ELSE Goto(r, "perform_create")]
    /\ UNCHANGED dbvars

\* RatingSerializer.validate, second query and the instructor test.
Rating_validate_rating(r) ==
    /\ At(r, "rate", "validate_rating")
    /\ LET u == req[r].user
           s == req[r].session IN
       req' = [req EXCEPT ![r] =
                 IF \E rt \in ratings : rt.user = u /\ rt.session = s
                 THEN Done(r, "DUPLICATE_RATING")
                 ELSE IF instructor(s) = u
                      THEN Done(r, "SELF_RATING_FORBIDDEN")
                      ELSE Goto(r, "perform_create")]
    /\ UNCHANGED dbvars

\* Variant of Rating_perform_create that forgets the is_completed test.
Rating_perform_create_no_completed(r) ==
    /\ At(r, "rate", "perform_create")
    /\ req' = [req EXCEPT ![r] =
                 IF req[r].session \notin stored THEN Done(r, "NOT_FOUND")
                 ELSE Goto(r, "save")]
    /\ UNCHANGED dbvars

\* RatingViewSet.perform_create, up to the save.
Rating_perform_create(r) ==
    /\ At(r, "rate", "perform_create")
    /\ req' = [req EXCEPT ![r] =
                 IF req[r].session \notin stored THEN Done(r, "NOT_FOUND")
                 ELSE IF ~ is_completed[req[r].session]
                      THEN Done(r, "SESSION_NOT_COMPLETED")
                      ELSE Goto(r, "save")]
    /\ UNCHANGED dbvars

\* serializer.save(user=request.user, session=session): the Rating table
\* carries no uniqueness constraint.
Rating_save(r) ==
    /\ At(r, "rate", "save")
    /\ ratings' = ratings \cup
          {[id |-> rating_seq, user |-> req[r].user,
            session |-> req[r].session, rating |-> req[r].score]}
    /\ rating_seq' = rating_seq + 1
    /\ req' = [req EXCEPT ![r] = [Done(r, "CREATED") EXCEPT !.pk = rating_seq]]
    /\ UNCHANGED <<enrollments, enrollment_seq, is_completed,
                   max_participants, subscriptions, profile, now, sessionvars,
                   instructor_ratingvars, accountvars>>

(***************************************************************************)
(* rating update: PATCH /sessions/<session_id>/ratings/<pk>/               *)
(***************************************************************************)
RatingUpdateStart(r, u, s, pk, score) ==
    /\ req[r].pc = "idle"
    /\ req' = [req EXCEPT ![r] = [Idle EXCEPT !.op = "rating_update",
                 !.pc = "get_object", !.user = u, !.session = s, !.pk = pk,
                 !.score = score]]
    /\ UNCHANGED dbvars

\* RatingViewSet.get_queryset: the ratings of the session in the URL.
Rating_get_queryset(s) == {rt \in ratings : rt.session = s}

\* UpdateModelMixin.update: get_object reads the instance the serializer
\* will save, then the field validators run.
RatingUpdate_get_object(r) ==
    /\ At(r, "rating_update", "get_object")
    /\ LET found == {rt \in Rating_get_queryset(req[r].session) :
                        rt.id = req[r].pk} IN
       req' = [req EXCEPT ![r] =
                 IF req[r].session \notin stored THEN Done(r, "NOT_FOUND")
                 ELSE IF found = {} THEN Done(r, "NOT_FOUND")
                 ELSE IF ~ valid_rating(req[r].score)
                      THEN Done(r, "INVALID_SCORE")
                      ELSE [Goto(r, "perform_update") EXCEPT
                              !.rating_instance = CHOOSE x \in found : TRUE]]
    /\ UNCHANGED dbvars

\* RatingViewSet.perform_update: get_object again and the ownership check
\* on the row it returns.
RatingUpdate_perform_update(r) ==
    /\ At(r, "rating_update", "perform_update")
    /\ LET found == {rt \in Rating_get_queryset(req[r].session) :
                        rt.id = req[r].pk} IN
       req' = [req EXCEPT ![r] =
                 IF req[r].session \notin stored THEN Done(r, "NOT_FOUND")
                 ELSE IF found = {} THEN Done(r, "NOT_FOUND")
                 ELSE IF ~ check_user_is_creator_rating(
                               req[r].user, CHOOSE x \in found : TRUE)
                      THEN Done(r, "FORBIDDEN")
                      ELSE Goto(r, "save")]
    /\ UNCHANGED dbvars

\* serializer.save(): the instance read first is saved with the new
\* rating; Model.save writes the row under its primary key, and inserts it
\* when no row carries that key any more.
RatingUpdate_save(r) ==
    /\ At(r, "rating_update", "save")
    /\ ratings' = {rt \in ratings : rt.id # req[r].pk} \cup
                      {[req[r].rating_instance EXCEPT !.rating = req[r].score]}
    /\ req' = [req EXCEPT ![r] = Done(r, "OK")]
    /\ UNCHANGED <<enrollments, enrollment_seq, rating_seq, is_completed,
                   max_participants, subscriptions, profile, now, sessionvars,
                   instructor_ratingvars, accountvars>>

(***************************************************************************)
(* rating delete: DELETE /sessions/<session_id>/ratings/<pk>/              *)
(***************************************************************************)
RatingDeleteStart(r, u, s, pk) ==
    /\ req[r].pc = "idle"
    /\ req' = [req EXCEPT ![r] = [Idle EXCEPT !.op = "rating_delete",
                 !.pc = "get_object", !.user = u, !.session = s, !.pk = pk]]
    /\ UNCHANGED dbvars

\* DestroyModelMixin.destroy: get_object over get_queryset.
RatingDelete_get_object(r) ==
    /\ At(r, "rating_delete", "get_object")
    /\ LET found == {rt \in Rating_get_queryset(req[r].session) :
                        rt.id = req[r].pk} IN
       req' = [req EXCEPT ![r] =
                 IF req[r].session \notin stored THEN Done(r, "NOT_FOUND")
                 ELSE IF found = {} THEN Done(r, "NOT_FOUND")
                 ELSE [Goto(r, "perform_destroy") EXCEPT
                         !.rating_instance = CHOOSE x \in found : TRUE]]
    /\ UNCHANGED dbvars

\* RatingViewSet.perform_destroy: the ownership check on the instance, then
\* instance.delete().
RatingDelete_perform_destroy(r) ==
    /\ At(r, "rating_delete", "perform_destroy")
    /\ IF ~ check_user_is_creator_rating(req[r].user, req[r].rating_instance)
       THEN /\ req' = [req EXCEPT ![r] = Done(r, "FORBIDDEN")]
            /\ UNCHANGED ratings
       ELSE /\ ratings' = {rt \in ratings : rt.id # req[r].pk}
            /\ req' = [req EXCEPT ![r] = Done(r, "NO_CONTENT")]
    /\ UNCHANGED <<enrollments, enrollment_seq, rating_seq, is_completed,
                   max_participants, subscriptions, profile, now, sessionvars,
                   instructor_ratingvars, accountvars>>

(***************************************************************************)
(* create_session: MeditationSession.create                                *)
(***************************************************************************)
SessionCreateStart(r, nm, i) ==
    /\ req[r].pc = "idle"
    /\ session_seq + InFlight("create") + InFlight("session_post")
          <= MaxSessionId
    /\ \E d \in CreateDurations :
          req' = [req EXCEPT ![r] = [Idle EXCEPT !.op = "create",
                    !.pc = "count", !.user = i, !.name = nm,
                    !.duration = d]]
    /\ UNCHANGED dbvars

\* cls.objects.filter(name__startswith=name).count() and the instance built
\* from it.
Session_create_count(r) ==
    /\ At(r, "create", "count")
    /\ LET count == Cardinality({s \in stored :
                         startswith(session_name[s], req[r].name)}) IN
       req' = [req EXCEPT ![r] =
                 [Goto(r, "save") EXCEPT !.instance =
                     [name |-> generated_name(req[r].name, count),
                      max_participants |-> DefaultMaxParticipants,
                      is_completed |-> FALSE,
                      instructor |-> req[r].user,
                      duration |-> req[r].duration]]]
    /\ UNCHANGED dbvars

\* session.save() of the new instance: an INSERT under the next primary
\* key; the unique index on name refuses a name that is already stored and
\* the IntegrityError reaches the caller.
Session_create_save(r) ==
    /\ At(r, "create", "save")
    /\ LET s == SessionKeys[session_seq] IN
       IF ~ name_unique(s, req[r].instance.name)
       THEN /\ req' = [req EXCEPT ![r] = Done(r, "INTEGRITY_ERROR")]
            /\ UNCHANGED <<is_completed, max_participants, stored,
                           session_seq, session_name, session_instructor,
                           duration>>
       ELSE /\ session_save(s, req[r].instance)
            /\ session_seq' = session_seq + 1
            /\ req' = [req EXCEPT ![r] =
                         [Done(r, "CREATED") EXCEPT !.session = s]]
    /\ UNCHANGED <<enrollments, enrollment_seq, ratings, rating_seq,
                   subscriptions, profile, now, techniques, technique_rows,
                   technique_seq,
                   instructor_ratingvars, accountvars>>

(***************************************************************************)
(* session post: POST /meditation_sessions/                                *)
(***************************************************************************)
SessionPostStart(r, u, nm) ==
    /\ req[r].pc = "idle"
    /\ session_seq + InFlight("create") + InFlight("session_post")
          <= MaxSessionId
    /\ \E d \in CreateDurations :
          req' = [req EXCEPT ![r] = [Idle EXCEPT !.op = "session_post",
                    !.pc = "validate", !.user = u, !.name = nm,
                    !.duration = d]]
    /\ UNCHANGED dbvars

\* CreateModelMixin.create: serializer.is_valid (the UniqueValidator of the
\* name field), then check_user_is_instructor of perform_create; the
\* instance carries the name as it was sent.
SessionPost_validate(r) ==
    /\ At(r, "session_post", "validate")
    /\ req' = [req EXCEPT ![r] =
                 IF \E x \in stored : session_name[x] = req[r].name
                 THEN Done(r, "NAME_TAKEN")
                 ELSE IF ~ is_staff(req[r].user) THEN Done(r, "FORBIDDEN")
                 ELSE [Goto(r, "save") EXCEPT !.instance =
                         [name |-> req[r].name,
                          max_participants |-> DefaultMaxParticipants,
                          is_completed |-> FALSE,
                          instructor |-> req[r].user,
                          duration |-> req[r].duration]]]
    /\ UNCHANGED dbvars

\* serializer.save(instructor=request.user): an INSERT under the next
\* primary key; the IntegrityError of the unique index on name is caught by
\* nothing.
SessionPost_save(r) ==
    /\ At(r, "session_post", "save")
    /\ LET s == SessionKeys[session_seq] IN
       IF ~ name_unique(s, req[r].instance.name)
       THEN /\ req' = [req EXCEPT ![r] = Done(r, "SERVER_ERROR")]
            /\ UNCHANGED <<is_completed, max_participants, stored,
                           session_seq, session_name, session_instructor,
                           duration>>
       ELSE /\ session_save(s, req[r].instance)
            /\ session_seq' = session_seq + 1
            /\ req' = [req EXCEPT ![r] =
                         [Done(r, "CREATED") EXCEPT !.session = s]]
    /\ UNCHANGED <<enrollments, enrollment_seq, ratings, rating_seq,
                   subscriptions, profile, now, techniques, technique_rows,
                   technique_seq, instructor_ratingvars, accountvars>>

(***************************************************************************)
(* session update: PATCH /meditation_sessions/<pk>/                        *)
(***************************************************************************)
SessionUpdateStart(r, u, s, payload) ==
    /\ req[r].pc = "idle"
    /\ req' = [req EXCEPT ![r] = [Idle EXCEPT !.op = "session_update",
                 !.pc = "get_object", !.user = u, !.session = s,
                 !.name = payload.name,
                 !.max_participants = payload.max_participants,
                 !.duration = payload.duration]]
    /\ UNCHANGED dbvars

\* UpdateModelMixin.update: get_object; the serializer is bound to the
\* instance read here.
SessionUpdate_get_object(r) ==
    /\ At(r, "session_update", "get_object")
    /\ req' = [req EXCEPT ![r] =
                 IF req[r].session \notin stored THEN Done(r, "NOT_FOUND")
                 ELSE [Goto(r, "prefetch") EXCEPT
                          !.instance = session_row(req[r].session)]]
    /\ UNCHANGED dbvars

\* prefetch_related("enrollments__user"): the enrollments of the session
\* are read into the instance.
SessionUpdate_prefetch(r) ==
    /\ At(r, "session_update", "prefetch")
    /\ req' = [req EXCEPT ![r] =
                 [Goto(r, "validate") EXCEPT !.prefetched =
                     {e \in enrollments : e.session = req[r].session}]]
    /\ UNCHANGED dbvars

\* serializer.is_valid: the UniqueValidator of the name field looks for
\* another row with the name sent.
SessionUpdate_validate(r) ==
    /\ At(r, "session_update", "validate")
    /\ req' = [req EXCEPT ![r] =
                 IF req[r].name # <<>>
                    /\ ~ name_unique(req[r].session, req[r].name)
                 THEN Done(r, "NAME_TAKEN")
                 ELSE Goto(r, "perform_update")]
    /\ UNCHANGED dbvars

\* MeditationSessionViewSet.perform_update, up to the save: get_object
\* again and the ownership check on the row read now.
SessionUpdate_perform_update(r) ==
    /\ At(r, "session_update", "perform_update")
    /\ req' = [req EXCEPT ![r] =
                 IF req[r].session \notin stored THEN Done(r, "NOT_FOUND")
                 ELSE IF ~ check_user_is_creator_session(req[r].user,
                                                         req[r].session)
                      THEN Done(r, "FORBIDDEN")
                      ELSE Goto(r, "save")]
    /\ UNCHANGED dbvars

\* The fields of the payload set on the instance (ModelSerializer.update).
updated_instance(instance, nm, mp, d) ==
    [instance EXCEPT
        !.name = IF nm = <<>> THEN @ ELSE nm,
        !.max_participants = IF mp = -1 THEN @ ELSE mp,
        !.duration = IF d = -1 THEN @ ELSE d]

\* serializer.save(): the instance read by update(), with the payload set
\* on it, is saved with every column; the post_save signal follows.
SessionUpdate_save(r) ==
    /\ At(r, "session_update", "save")
    /\ LET s == req[r].session
           row == updated_instance(req[r].instance, req[r].name,
                                   req[r].max_participants,
                                   req[r].duration) IN
       IF ~ name_unique(s, row.name)
       THEN /\ req' = [req EXCEPT ![r] = Done(r, "SERVER_ERROR")]
            /\ UNCHANGED <<is_completed, max_participants, stored,
                           session_name, session_instructor, duration>>
       ELSE /\ session_save(s, row)
            /\ req' = [req EXCEPT ![r] = AfterSessionSave(r, row)]
    /\ UNCHANGED <<enrollments, enrollment_seq, ratings, rating_seq,
                   subscriptions, profile, now, session_seq, techniques,
                   technique_rows, technique_seq,
                   instructor_ratingvars, accountvars>>

(***************************************************************************)
(* session delete: DELETE /meditation_sessions/<pk>/                       *)
(***************************************************************************)
SessionDeleteStart(r, u, s) ==
    /\ req[r].pc = "idle"
    /\ req' = [req EXCEPT ![r] = [Idle EXCEPT !.op = "session_delete",
                 !.pc = "get_object", !.user = u, !.session = s]]
    /\ UNCHANGED dbvars

\* DestroyModelMixin.destroy: get_object, and the ownership check of
\* MeditationSessionViewSet.perform_destroy.
SessionDelete_get_object(r) ==
    /\ At(r, "session_delete", "get_object")
    /\ req' = [req EXCEPT ![r] =
                 IF req[r].session \notin stored THEN Done(r, "NOT_FOUND")
                 ELSE IF ~ check_user_is_creator_session(req[r].user,
                                                         req[r].session)
                      THEN Done(r, "FORBIDDEN")
                      ELSE Goto(r, "destroy")]
    /\ UNCHANGED dbvars

\* instance.delete(): the row goes, and with it (on_delete=CASCADE) its
\* enrollments and ratings and its links to techniques.
SessionDelete_destroy(r) ==
    /\ At(r, "session_delete", "destroy")
    /\ LET s == req[r].session IN
       /\ stored' = stored \ {s}
       /\ session_name' = [session_name EXCEPT ![s] = <<>>]
       /\ session_instructor' = [session_instructor EXCEPT ![s] = Absent]
       /\ duration' = [duration EXCEPT ![s] = 0]
       /\ is_completed' = [is_completed EXCEPT ![s] = FALSE]
       /\ max_participants' = [max_participants EXCEPT ![s] = 0]
       /\ techniques' = [techniques EXCEPT ![s] = {}]
       /\ enrollments' = {e \in enrollments : e.session # s}
       /\ ratings' = {rt \in ratings : rt.session # s}
    /\ req' = [req EXCEPT ![r] = Done(r, "NO_CONTENT")]
    /\ UNCHANGED <<enrollment_seq, rating_seq, subscriptions, profile, now,
                   session_seq, technique_rows, technique_seq,
                   instructor_ratingvars, accountvars>>

(***************************************************************************)
(* add_technique: POST /meditation_sessions/<pk>/add-technique/            *)
(***************************************************************************)
AddTechniqueStart(r, u, s, tn) ==
    /\ req[r].pc = "idle"
    /\ req' = [req EXCEPT ![r] = [Idle EXCEPT !.op = "add_technique",
                 !.pc = "get_object", !.user = u, !.session = s,
                 !.technique = tn]]
    /\ UNCHANGED dbvars

\* add_technique: get_object and the comparison with session.instructor.
AddTechnique_get_object(r) ==
    /\ At(r, "add_technique", "get_object")
    /\ req' = [req EXCEPT ![r] =
                 IF req[r].session \notin stored THEN Done(r, "NOT_FOUND")
                 ELSE IF session_instructor[req[r].session] # req[r].user
                      THEN Done(r, "FORBIDDEN")
                      ELSE Goto(r, "get_technique")]
    /\ UNCHANGED dbvars

\* Technique.objects.get(name=technique_name)
AddTechnique_get_technique(r) ==
    /\ At(r, "add_technique", "get_technique")
    /\ LET found == {t \in technique_rows : t.name = req[r].technique} IN
       req' = [req EXCEPT ![r] =
                 IF found = {} THEN Done(r, "TECHNIQUE_NOT_FOUND")
                 ELSE [Goto(r, "add") EXCEPT !.technique_instance =
                          CHOOSE t \in found : TRUE]]
    /\ UNCHANGED dbvars

\* session.techniques.add(technique): a row of the link table, refused by
\* its foreign keys when the session row or the technique row is gone.
AddTechnique_add(r) ==
    /\ At(r, "add_technique", "add")
    /\ LET s == req[r].session
           t == req[r].technique_instance.id IN
       IF s \notin stored \/ ~ \E x \in technique_rows : x.id = t
       THEN /\ req' = [req EXCEPT ![r] = Done(r, "SERVER_ERROR")]
            /\ UNCHANGED techniques
       ELSE /\ techniques' = [techniques EXCEPT ![s] = @ \cup {t}]
            /\ req' = [req EXCEPT ![r] = Done(r, "OK")]
    /\ UNCHANGED <<enrollments, enrollment_seq, ratings, rating_seq,
                   is_completed, max_participants, subscriptions, profile,
                   now, stored, session_seq, session_name,
                   session_instructor, duration, technique_rows,
                   technique_seq, instructor_ratingvars, accountvars>>

(***************************************************************************)
(* technique create: POST /techniques/                                     *)
(***************************************************************************)
TechniqueCreateStart(r, u, tn) ==
    /\ req[r].pc = "idle"
    /\ technique_seq + InFlight("technique_create") <= MaxTechniqueId
    /\ req' = [req EXCEPT ![r] = [Idle EXCEPT !.op = "technique_create",
                 !.pc = "validate", !.user = u, !.technique = tn]]
    /\ UNCHANGED dbvars

\* serializer.is_valid (the UniqueValidator of the name field), then
\* check_user_is_instructor of TechniqueViewSet.perform_create.
TechniqueCreate_validate(r) ==
    /\ At(r, "technique_create", "validate")
    /\ req' = [req EXCEPT ![r] =
                 IF \E t \in technique_rows : t.name = req[r].technique
                 THEN Done(r, "NAME_TAKEN")
                 ELSE IF ~ is_staff(req[r].user) THEN Done(r, "FORBIDDEN")
                 ELSE Goto(r, "save")]
    /\ UNCHANGED dbvars

\* serializer.save(instructor=request.user): an INSERT; the IntegrityError
\* of the unique index on name is caught by nothing.
TechniqueCreate_save(r) ==
    /\ At(r, "technique_create", "save")
    /\ IF \E t \in technique_rows : t.name = req[r].technique
       THEN /\ req' = [req EXCEPT ![r] = Done(r, "SERVER_ERROR")]
            /\ UNCHANGED <<technique_rows, technique_seq>>
       ELSE /\ technique_rows' = technique_rows \cup
                   {[id |-> technique_seq, name |-> req[r].technique,
                     instructor |-> req[r].user]}
            /\ technique_seq' = technique_seq + 1
            /\ req' = [req EXCEPT ![r] =
                         [Done(r, "CREATED") EXCEPT !.pk = technique_seq]]
    /\ UNCHANGED <<enrollments, enrollment_seq, ratings, rating_seq,
                   is_completed, max_participants, subscriptions, profile,
                   now, stored, session_seq, session_name,
                   session_instructor, duration, techniques,
                   instructor_ratingvars, accountvars>>

(***************************************************************************)
(* technique update: PATCH /techniques/<pk>/                               *)
(***************************************************************************)
TechniqueUpdateStart(r, u, pk, tn) ==
    /\ req[r].pc = "idle"
    /\ req' = [req EXCEPT ![r] = [Idle EXCEPT !.op = "technique_update",
                 !.pc = "get_object", !.user = u, !.pk = pk,
                 !.technique = tn]]
    /\ UNCHANGED dbvars

\* UpdateModelMixin.update: get_object; the serializer is bound to the
\* instance read here.
TechniqueUpdate_get_object(r) ==
    /\ At(r, "technique_update", "get_object")
    /\ LET found == {t \in technique_rows : t.id = req[r].pk} IN
       req' = [req EXCEPT ![r] =
                 IF found = {} THEN Done(r, "NOT_FOUND")
                 ELSE [Goto(r, "validate") EXCEPT !.technique_instance =
                          CHOOSE t \in found : TRUE]]
    /\ UNCHANGED dbvars

\* serializer.is_valid: the UniqueValidator of the name field looks for
\* another row with the name sent.
TechniqueUpdate_validate(r) ==
    /\ At(r, "technique_update", "validate")
    /\ req' = [req EXCEPT ![r] =
                 IF \E t \in technique_rows :
                        t.name = req[r].technique /\ t.id # req[r].pk
                 THEN Done(r, "NAME_TAKEN")
                 ELSE Goto(r, "perform_update")]
    /\ UNCHANGED dbvars

\* TechniqueViewSet.perform_update up to the save: get_object again and
\* check_user_is_creator on the row read now.
TechniqueUpdate_perform_update(r) ==
    /\ At(r, "technique_update", "perform_update")
    /\ LET found == {t \in technique_rows : t.id = req[r].pk} IN
       req' = [req EXCEPT ![r] =
                 IF found = {} THEN Done(r, "NOT_FOUND")
                 ELSE IF (CHOOSE t \in found : TRUE).instructor # req[r].user
                      THEN Done(r, "FORBIDDEN")
                      ELSE Goto(r, "save")]
    /\ UNCHANGED dbvars

\* serializer.save(): the instance read first is saved with the new name
\* under its primary key (inserted when the row is gone); the
\* IntegrityError of the unique index on name is caught by nothing.
TechniqueUpdate_save(r) ==
    /\ At(r, "technique_update", "save")
    /\ IF \E t \in technique_rows :
              t.name = req[r].technique /\ t.id # req[r].pk
       THEN /\ req' = [req EXCEPT ![r] = Done(r, "SERVER_ERROR")]
            /\ UNCHANGED technique_rows
       ELSE /\ technique_rows' =
                   {t \in technique_rows : t.id # req[r].pk} \cup
                   {[req[r].technique_instance EXCEPT
                        !.name = req[r].technique]}
            /\ req' = [req EXCEPT ![r] = Done(r, "OK")]
    /\ UNCHANGED <<enrollments, enrollment_seq, ratings, rating_seq,
                   is_completed, max_participants, subscriptions, profile,
                   now, stored, session_seq, session_name,
                   session_instructor, duration, techniques, technique_seq,
                   instructor_ratingvars, accountvars>>

(***************************************************************************)
(* technique delete: DELETE /techniques/<pk>/                              *)
(***************************************************************************)
TechniqueDeleteStart(r, u, pk) ==
    /\ req[r].pc = "idle"
    /\ req' = [req EXCEPT ![r] = [Idle EXCEPT !.op = "technique_delete",
                 !.pc = "get_object", !.user = u, !.pk = pk]]
    /\ UNCHANGED dbvars

\* DestroyModelMixin.destroy: get_object.
TechniqueDelete_get_object(r) ==
    /\ At(r, "technique_delete", "get_object")
    /\ LET found == {t \in technique_rows : t.id = req[r].pk} IN
       req' = [req EXCEPT ![r] =
                 IF found = {} THEN Done(r, "NOT_FOUND")
                 ELSE [Goto(r, "perform_destroy") EXCEPT
                         !.technique_instance = CHOOSE t \in found : TRUE]]
    /\ UNCHANGED dbvars

\* TechniqueViewSet.perform_destroy: check_user_is_creator on the instance,
\* then instance.delete(): the row goes, and with it its links to sessions.
TechniqueDelete_perform_destroy(r) ==
    /\ At(r, "technique_delete", "perform_destroy")
    /\ IF req[r].technique_instance.instructor # req[r].user
       THEN /\ req' = [req EXCEPT ![r] = Done(r, "FORBIDDEN")]
            /\ UNCHANGED <<technique_rows, techniques>>
       ELSE /\ technique_rows' = {t \in technique_rows : t.id # req[r].pk}
            /\ techniques' = [s \in SessionPool |->
                                 techniques[s] \ {req[r].pk}]
            /\ req' = [req EXCEPT ![r] = Done(r, "NO_CONTENT")]
    /\ UNCHANGED <<enrollments, enrollment_seq, ratings, rating_seq,
                   is_completed, max_participants, subscriptions, profile,
                   now, stored, session_seq, session_name,
                   session_instructor, duration, technique_seq,
                   instructor_ratingvars, accountvars>>

(***************************************************************************)
(* rate_instructor: POST /user/instructor_ratings/                         *)
(***************************************************************************)
InstructorRateStart(r, u, i, score, comment) ==
    /\ req[r].pc = "idle"
    /\ instructor_rating_seq + InFlight("rate_instructor")
          <= MaxInstructorRatingId
    /\ req' = [req EXCEPT ![r] = [Idle EXCEPT !.op = "rate_instructor",
                 !.pc = "validate", !.user = u, !.instructor = i,
                 !.score = score, !.comment = comment]]
    /\ UNCHANGED dbvars

\* InstructorRatingSerializer.validate_rating
validate_rating(value) == ~ (value <= 0 \/ value > 5)

\* InstructorRatingSerializer.validate_comment, on the length of the text.
validate_comment(length) == ~ (length < MinCommentLength)

\* Variant of check_user_attended_instructor_session that forgets the
\* session__is_completed filter.
check_user_attended_instructor_session_any(u, i) ==
    \E e \in enrollments :
        e.user = u /\ instructor(e.session) = i

\* user/utils.py: check_user_attended_instructor_session
check_user_attended_instructor_session(u, i) ==
    \E e \in enrollments :
        e.user = u /\ instructor(e.session) = i /\ is_completed[e.session]

\* serializer.is_valid (the errors of all fields are reported together) and
\* InstructorRatingViewSet.perform_create up to the save.
InstructorRating_validate(r) ==
    /\ At(r, "rate_instructor", "validate")
    /\ LET rating_ok == validate_rating(req[r].score)
           comment_ok == validate_comment(req[r].comment) IN
       req' = [req EXCEPT ![r] =
                 IF ~ rating_ok /\ ~ comment_ok
                 THEN Done(r, "INVALID_SCORE_COMMENT_TOO_SHORT")
                 ELSE IF ~ rating_ok THEN Done(r, "INVALID_SCORE")
                 ELSE IF ~ comment_ok THEN Done(r, "COMMENT_TOO_SHORT")
                 ELSE IF ~ check_user_attended_instructor_session(
                               req[r].user, req[r].instructor)
                      THEN Done(r, "NOT_ATTENDED")
                      ELSE Goto(r, "save")]
    /\ UNCHANGED dbvars

\* serializer.save(user=request.user): the InstructorRating table carries
\* no uniqueness constraint.
InstructorRating_save(r) ==
    /\ At(r, "rate_instructor", "save")
    /\ instructor_ratings' = instructor_ratings \cup
          {[id |-> instructor_rating_seq, user |-> req[r].user,
            instructor |-> req[r].instructor, rating |-> req[r].score,
            comment |-> req[r].comment]}
    /\ instructor_rating_seq' = instructor_rating_seq + 1
    /\ req' = [req EXCEPT ![r] =
                 [Done(r, "CREATED") EXCEPT !.pk = instructor_rating_seq]]
    /\ UNCHANGED <<enrollments, enrollment_seq, ratings, rating_seq,
                   is_completed, max_participants, subscriptions, profile,
                   now, sessionvars, accountvars>>

(***************************************************************************)
(* instructor rating update:                                               *)
(*   PATCH /user/instructor_ratings/<instructor_id>/<pk>                   *)
(***************************************************************************)
\* The payload is partial: rating, comment (its length) and instructor are
\* each sent or left out (-1, Absent).
InstructorRatingUpdateStart(r, u, i, pk, payload) ==
    /\ req[r].pc = "idle"
    /\ req' = [req EXCEPT ![r] = [Idle EXCEPT
                 !.op = "instructor_rating_update", !.pc = "get_object",
                 !.user = u, !.instructor = i, !.pk = pk,
                 !.score = payload.rating, !.comment = payload.comment,
                 !.payload_instructor = payload.instructor]]
    /\ UNCHANGED dbvars

\* InstructorRatingViewSet.get_object: the row with the primary key and
\* the instructor of the URL.
InstructorRating_get_object(i, pk) ==
    {x \in instructor_ratings : x.instructor = i /\ x.id = pk}

\* user/utils.py: check_user_can_modify_instructor_rating (TRUE when no
\* error is raised).
check_user_can_modify_instructor_rating(instance, u, i) ==
    ~ (instance.instructor # i) /\ ~ (instance.user # u)

\* InstructorRatingViewSet.update up to the save: get_object, the check of
\* the requester, and the validation of the fields that were sent (the
\* errors of all fields are reported together).
InstructorRatingUpdate_get_object(r) ==
    /\ At(r, "instructor_rating_update", "get_object")
    /\ LET found == InstructorRating_get_object(req[r].instructor, req[r].pk)
           rating_ok == req[r].score = -1 \/ validate_rating(req[r].score)
           comment_ok == req[r].comment = -1
                            \/ validate_comment(req[r].comment) IN
       req' = [req EXCEPT ![r] =
                 IF found = {} THEN Done(r, "NOT_FOUND")
                 ELSE LET instance == CHOOSE x \in found : TRUE IN
                      IF ~ check_user_can_modify_instructor_rating(
                               instance, req[r].user, req[r].instructor)
                      THEN Done(r, "FORBIDDEN")
                      ELSE IF ~ rating_ok /\ ~ comment_ok
                      THEN Done(r, "INVALID_SCORE_COMMENT_TOO_SHORT")
                      ELSE IF ~ rating_ok THEN Done(r, "INVALID_SCORE")
                      ELSE IF ~ comment_ok THEN Done(r, "COMMENT_TOO_SHORT")
                      ELSE [Goto(r, "save") EXCEPT
                              !.instructor_rating_instance = instance]]
    /\ UNCHANGED dbvars

\* serializer.save(): the fields that were sent are set on the instance
\* and the instance is saved under its primary key.
InstructorRatingUpdate_save(r) ==
    /\ At(r, "instructor_rating_update", "save")
    /\ LET instance == req[r].instructor_rating_instance IN
       instructor_ratings' =
           {x \in instructor_ratings : x.id # instance.id} \cup
           {[instance EXCEPT
               !.rating = IF req[r].score = -1 THEN @ ELSE req[r].score,
               !.comment = IF req[r].comment = -1 THEN @
                           ELSE req[r].comment,
               !.instructor = IF req[r].payload_instructor = Absent THEN @
                              ELSE req[r].payload_instructor]}
    /\ req' = [req EXCEPT ![r] = Done(r, "OK")]
    /\ UNCHANGED <<enrollments, enrollment_seq, ratings, rating_seq,
                   is_completed, max_participants, subscriptions, profile,
                   now, sessionvars, instructor_rating_seq, accountvars>>

(***************************************************************************)
(* instructor rating delete:                                               *)
(*   DELETE /user/instructor_ratings/<instructor_id>/<pk>                  *)
(***************************************************************************)
InstructorRatingDeleteStart(r, u, i, pk) ==
    /\ req[r].pc = "idle"
    /\ req' = [req EXCEPT ![r] = [Idle EXCEPT
                 !.op = "instructor_rating_delete", !.pc = "get_object",
                 !.user = u, !.instructor = i, !.pk = pk]]
    /\ UNCHANGED dbvars

\* InstructorRatingViewSet.destroy: get_object and the check of the
\* requester.
InstructorRatingDelete_get_object(r) ==
    /\ At(r, "instructor_rating_delete", "get_object")
    /\ LET found == InstructorRating_get_object(req[r].instructor, req[r].pk)
       IN
       req' = [req EXCEPT ![r] =
                 IF found = {} THEN Done(r, "NOT_FOUND")
                 ELSE IF ~ check_user_can_modify_instructor_rating(
                               CHOOSE x \in found : TRUE, req[r].user,
                               req[r].instructor)
                      THEN Done(r, "FORBIDDEN")
                      ELSE Goto(r, "destroy")]
    /\ UNCHANGED dbvars

\* super().destroy (DestroyModelMixin.destroy): get_object again.
InstructorRatingDelete_destroy(r) ==
    /\ At(r, "instructor_rating_delete", "destroy")
    /\ req' = [req EXCEPT ![r] =
                 IF InstructorRating_get_object(req[r].instructor,
                                                req[r].pk) = {}
                 THEN Done(r, "NOT_FOUND")
                 ELSE Goto(r, "perform_destroy")]
    /\ UNCHANGED dbvars

\* perform_destroy: instance.delete() removes the row with the key of the
\* instance read, if it is still stored, and the handler answers 204.
InstructorRatingDelete_perform_destroy(r) ==
    /\ At(r, "instructor_rating_delete", "perform_destroy")
    /\ instructor_ratings' = {x \in instructor_ratings : x.id # req[r].pk}
    /\ req' = [req EXCEPT ![r] = Done(r, "NO_CONTENT")]
    /\ UNCHANGED <<enrollments, enrollment_seq, ratings, rating_seq,
                   is_completed, max_participants, subscriptions, profile,
                   now, sessionvars, instructor_rating_seq, accountvars>>

(***************************************************************************)
(* purchase_or_renew: POST /user/subscriptions/                            *)
(***************************************************************************)
\* request.user and the balance the handler works on.  The user that
\* TokenAuthentication loads from the row carries the balance as a Decimal;
\* a user object built with a Python number for cash_balance and handed to
\* the view (force_authenticate) carries that number (numeric).
PurchaseStart(r, u, numeric) ==
    /\ req[r].pc = "idle"
    /\ req' = [req EXCEPT ![r] = [Idle EXCEPT !.op = "purchase",
                 !.pc = "deduct", !.user = u, !.numeric = numeric,
                 !.balance = cash_balance[u]]]
    /\ UNCHANGED dbvars

\* Variant of check_balance that also refuses a balance equal to the cost.
check_balance_above(balance, sub_cost) == ~ (balance <= sub_cost)

\* user/utils.py: check_balance (TRUE when no error is raised).
check_balance(balance, sub_cost) == ~ (balance < sub_cost)

\* check_balance and deduct_user_balance.  The cost is the float 120.5:
\* `user.cash_balance -= sub_cost` raises TypeError on a Decimal balance,
\* before user.save(); on a number the cost is taken off and the user is
\* saved.
Purchase_deduct(r) ==
    /\ At(r, "purchase", "deduct")
    /\ IF ~ check_balance(req[r].balance, SubscriptionCost)
       THEN /\ req' = [req EXCEPT ![r] = Done(r, "INSUFFICIENT_FUNDS")]
            /\ UNCHANGED cash_balance
       ELSE IF ~ req[r].numeric
       THEN /\ req' = [req EXCEPT ![r] = Done(r, "SERVER_ERROR")]
            /\ UNCHANGED cash_balance
       ELSE /\ cash_balance' = [cash_balance EXCEPT ![req[r].user] =
                                    req[r].balance - SubscriptionCost]
            /\ req' = [req EXCEPT ![r] = Goto(r, "get_active_subscription")]
    /\ UNCHANGED <<enrollments, enrollment_seq, ratings, rating_seq,
                   is_completed, max_participants, subscriptions, profile,
                   now, sessionvars, instructor_ratingvars,
                   subscription_seq, expired>>

\* Variant of Purchase_get_active_subscription that never finds a row.
Purchase_get_active_subscription_none(r) ==
    /\ At(r, "purchase", "get_active_subscription")
    /\ req' = [req EXCEPT ![r] = Goto(r, "create")]
    /\ UNCHANGED dbvars

\* get_active_subscription(user): .first() takes the row with the lowest
\* primary key.
Purchase_get_active_subscription(r) ==
    /\ At(r, "purchase", "get_active_subscription")
    /\ LET active == get_active_subscription(req[r].user) IN
       req' = [req EXCEPT ![r] =
                 IF active = {} THEN Goto(r, "create")
                 ELSE [Goto(r, "extend") EXCEPT !.subscription =
                          CHOOSE sub \in active :
                              \A other \in active : sub.id <= other.id]]
    /\ UNCHANGED dbvars

\* active_subscription.end_date += timedelta(days=30); .save() writes the
\* row as the handler read it, with the new end_date.
Purchase_extend(r) ==
    /\ At(r, "purchase", "extend")
    /\ LET sub == req[r].subscription IN
       subscriptions' = {x \in subscriptions : x.id # sub.id} \cup
           {[sub EXCEPT !.end_date = @ + SubscriptionDays]}
    /\ req' = [req EXCEPT ![r] = Done(r, "EXTENDED")]
    /\ UNCHANGED <<enrollments, enrollment_seq, ratings, rating_seq,
                   is_completed, max_participants, profile, now,
                   sessionvars, instructor_ratingvars, accountvars>>

\* serializer.save(user=user, cost=cost, end_date=now + 30 days,
\* is_active=True)
Purchase_create(r) ==
    /\ At(r, "purchase", "create")
    /\ subscriptions' = subscriptions \cup
          {[id |-> subscription_seq, user |-> req[r].user,
            end_date |-> now + SubscriptionDays, is_active |-> TRUE]}
    /\ subscription_seq' = subscription_seq + 1
    /\ req' = [req EXCEPT ![r] =
                 [Done(r, "CREATED") EXCEPT !.pk = subscription_seq]]
    /\ UNCHANGED <<enrollments, enrollment_seq, ratings, rating_seq,
                   is_completed, max_participants, profile, now,
                   sessionvars, instructor_ratingvars, cash_balance,
                   expired>>

(***************************************************************************)
(* Subscription sweep                                                      *)
(***************************************************************************)
\* Variant of Sweep_query that forgets the end_date filter.
Sweep_query_all_active ==
    /\ expired = {}
    /\ \E sub \in subscriptions : sub.is_active
    /\ expired' = {sub \in subscriptions : sub.is_active}
    /\ UNCHANGED <<enrollments, enrollment_seq, ratings, rating_seq,
                   is_completed, max_participants, subscriptions, profile,
                   now, sessionvars, instructor_ratingvars, cash_balance,
                   subscription_seq, req>>

\* The query of check_expired_subscriptions: the loop starts and reads the
\* rows that have passed their end_date and are still active.
Sweep_query ==
    /\ expired = {}
    /\ \E sub \in subscriptions : sub.end_date < now /\ sub.is_active
    /\ expired' = {sub \in subscriptions : sub.end_date < now /\ sub.is_active}
    /\ UNCHANGED <<enrollments, enrollment_seq, ratings, rating_seq,
                   is_completed, max_participants, subscriptions, profile,
                   now, sessionvars, instructor_ratingvars, cash_balance,
                   subscription_seq, req>>

\* One turn of the loop: subscription.is_active = False; subscription.save()
\* writes the row as the query read it, with the new flag.
Sweep_save ==
    /\ expired # {}
    /\ LET sub == CHOOSE x \in expired : \A other \in expired : x.id <= other.id
       IN /\ subscriptions' = {x \in subscriptions : x.id # sub.id} \cup
                                 {[sub EXCEPT !.is_active = FALSE]}
          /\ expired' = expired \ {sub}
    /\ UNCHANGED <<enrollments, enrollment_seq, ratings, rating_seq,
                   is_completed, max_participants, profile, now, sessionvars,
                   instructor_ratingvars, cash_balance, subscription_seq,
                   req>>

(***************************************************************************)
(* add_funds: POST /user/add-funds/                                        *)
(***************************************************************************)
\* request.user and the balance the handler works on, as for
\* purchase_or_renew; amount is what float() makes of the posted amount.
AddFundsStart(r, u, amount, numeric) ==
    /\ req[r].pc = "idle"
    /\ req' = [req EXCEPT ![r] = [Idle EXCEPT !.op = "add_funds",
                 !.pc = "post", !.user = u, !.amount = amount.value,
                 !.amount_kind = amount.kind, !.numeric = numeric,
                 !.balance = cash_balance[u]]]
    /\ UNCHANGED dbvars

\* Variant of AddFunds_post without the check of the amount.
AddFunds_post_any_amount(r) ==
    /\ At(r, "add_funds", "post")
    /\ IF req[r].amount_kind # "finite" \/ ~ req[r].numeric
       THEN /\ req' = [req EXCEPT ![r] = Done(r, "SERVER_ERROR")]
            /\ UNCHANGED cash_balance
       ELSE /\ cash_balance' = [cash_balance EXCEPT ![req[r].user] =
                                    req[r].balance + req[r].amount]
            /\ req' = [req EXCEPT ![r] = Done(r, "FUNDS_ADDED")]
    /\ UNCHANGED <<enrollments, enrollment_seq, ratings, rating_seq,
                   is_completed, max_participants, subscriptions, profile,
                   now, sessionvars, instructor_ratingvars,
                   subscription_seq, expired>>

\* AddFundsView.post.  float(amount) fails, or the amount is not above
\* zero: refused.  nan and +inf pass `amount <= 0`.  Then
\* `user.cash_balance += amount` raises TypeError on a Decimal balance; on
\* a number the sum is computed and user.save() stores it, except that a
\* sum that is no finite number is refused by the DecimalField when the
\* row is written.  The errors after the check are caught by nothing.
AddFunds_post(r) ==
    /\ At(r, "add_funds", "post")
    /\ IF \/ req[r].amount_kind = "invalid"
          \/ req[r].amount_kind = "finite" /\ req[r].amount <= 0
       THEN /\ req' = [req EXCEPT ![r] = Done(r, "INVALID_AMOUNT")]
            /\ UNCHANGED cash_balance
       ELSE IF ~ req[r].numeric \/ req[r].amount_kind \in {"nan", "inf"}
       THEN /\ req' = [req EXCEPT ![r] = Done(r, "SERVER_ERROR")]
            /\ UNCHANGED cash_balance
       ELSE /\ cash_balance' = [cash_balance EXCEPT ![req[r].user] =
                                    req[r].balance + req[r].amount]
            /\ req' = [req EXCEPT ![r] = Done(r, "FUNDS_ADDED")]
    /\ UNCHANGED <<enrollments, enrollment_seq, ratings, rating_seq,
                   is_completed, max_participants, subscriptions, profile,
                   now, sessionvars, instructor_ratingvars,
                   subscription_seq, expired>>

(***************************************************************************)
(* user update: PUT/PATCH /user/me/                                        *)
(***************************************************************************)
\* get_object is request.user, the row as authentication has loaded it,
\* with the balance it had then; valid tells whether the serializer accepts
\* the fields sent, password whether a password is among them.
UserUpdateStart(r, u, valid, password) ==
    /\ req[r].pc = "idle"
    /\ req' = [req EXCEPT ![r] = [Idle EXCEPT !.op = "user_update",
                 !.pc = "update", !.user = u, !.payload_valid = valid,
                 !.payload_password = password,
                 !.balance = cash_balance[u]]]
    /\ UNCHANGED dbvars

\* serializer.is_valid, then UserSerializer.update: super().update sets the
\* fields sent and instance.save() writes every column of the row,
\* cash_balance as the handler holds it.
UserUpdate_update(r) ==
    /\ At(r, "user_update", "update")
    /\ IF ~ req[r].payload_valid
       THEN /\ req' = [req EXCEPT ![r] = Done(r, "BAD_REQUEST")]
            /\ UNCHANGED cash_balance
       ELSE /\ cash_balance' = [cash_balance EXCEPT ![req[r].user] =
                                    req[r].balance]
            /\ req' = [req EXCEPT ![r] =
                         IF req[r].payload_password
                         THEN Goto(r, "set_password")
                         ELSE Done(r, "OK")]
    /\ UNCHANGED <<enrollments, enrollment_seq, ratings, rating_seq,
                   is_completed, max_participants, subscriptions, profile,
                   now, sessionvars, instructor_ratingvars,
                   subscription_seq, expired>>

\* user.set_password(password); user.save(): the row is written a second
\* time, again with the balance the handler holds.
UserUpdate_set_password(r) ==
    /\ At(r, "user_update", "set_password")
    /\ cash_balance' = [cash_balance EXCEPT ![req[r].user] = req[r].balance]
    /\ req' = [req EXCEPT ![r] = Done(r, "OK")]
    /\ UNCHANGED <<enrollments, enrollment_seq, ratings, rating_seq,
                   is_completed, max_participants, subscriptions, profile,
                   now, sessionvars, instructor_ratingvars,
                   subscription_seq, expired>>

\* timezone.now() moves on: a subscription period and a day pass while no
\* request is served.
Tick ==
    /\ now + SubscriptionDays + 1 <= MaxNow
    /\ now' = now + SubscriptionDays + 1
    /\ UNCHANGED <<enrollments, enrollment_seq, ratings, rating_seq,
                   is_completed, max_participants, subscriptions, profile,
                   sessionvars, instructor_ratingvars, accountvars, req>>

\* The response is delivered and the worker is free again.
Respond(r) ==
    /\ req[r].pc = "done"
    /\ req' = [req EXCEPT ![r] = Idle]
    /\ UNCHANGED dbvars

(***************************************************************************)
(* Specifications                                                          *)
(***************************************************************************)
\* The store after set-up: users and sessions exist, nobody is enrolled.
InitStore ==
    /\ enrollments = {}
    /\ enrollment_seq = 1
    /\ ratings = {}
    /\ rating_seq = 1
    /\ is_completed = [s \in SessionPool |-> FALSE]
    /\ max_participants = [s \in SessionPool |->
                              IF s = "s1" THEN 1 ELSE MaxCapacity]
    /\ stored = Sessions
    /\ session_seq = Cardinality(Sessions) + 1
    /\ session_name = [s \in SessionPool |->
                          IF s = "s1" THEN generated_name(<<"A">>, 0)
                          ELSE IF s = "s2" THEN generated_name(<<"A">>, 1)
                          ELSE <<>>]
    /\ session_instructor = [s \in SessionPool |->
                                IF s \in Sessions THEN "i1" ELSE Absent]
    /\ duration = [s \in SessionPool |->
                      IF s = "s1" THEN 1 ELSE IF s = "s2" THEN 2 ELSE 0]
    /\ techniques = [s \in SessionPool |-> {}]
    /\ technique_rows = {[id |-> 1, name |-> "t1", instructor |-> "i2"]}
    /\ technique_seq = 2
    /\ instructor_ratings = {}
    /\ instructor_rating_seq = 1
    /\ profile = [u \in RegularUsers |->
                    [sessions_attended |-> 0, total_time_spent |-> 0]]
    /\ now = 1
    /\ expired = {}
    /\ req = [r \in Workers |-> Idle]

\* Enrollment workflow.  u1 holds a subscription that has passed its
\* end_date and waits for the sweep, u2 holds one that is still running,
\* i1 has none.
Init ==
    /\ InitStore
    /\ subscriptions =
         {[id |-> 1, user |-> "u1", end_date |-> 0, is_active |-> TRUE],
          [id |-> 2, user |-> "u2", end_date |-> 2, is_active |-> TRUE]}
    /\ subscription_seq = 3
    /\ cash_balance = [u \in Users |-> 0]

EnrollmentSteps ==
    \/ \E r \in Workers : Enrollment_validate(r)
    \/ \E r \in Workers : Enrollment_perform_create(r)
    \/ \E r \in Workers : Enrollment_save(r)
    \/ \E r \in Workers : Enrollment_get_object(r)
    \/ \E r \in Workers : Enrollment_destroy(r)

\* Requests in parallel: either worker serves the enroll and unenroll
\* requests of the regular users, and worker w1 the enroll requests of i1
\* for session s1.
Next ==
    \/ \E r \in Workers, u \in RegularUsers, s \in SessionIds,
          pu \in PayloadUsers : EnrollStart(r, u, s, pu)
    \/ \E r \in {"w1"}, u \in {"i1"}, s \in {"s1"} :
          EnrollStart(r, u, s, Absent)
    \/ \E r \in Workers, u \in RegularUsers, pk \in 1..MaxEnrollmentId :
          UnenrollStart(r, u, pk)
    \/ EnrollmentSteps
    \/ Sweep_query
    \/ Sweep_save
    \/ \E r \in Workers : Respond(r)

Spec == Init /\ [][Next]_vars

\* The same workflow with one request served at a time: a request starts,
\* and the sweep runs, only while no other request is being served.  An
\* update of a profile does not count: it may be under way on another
\* worker.
Quiet ==
    /\ \A r \in Workers :
          req[r].pc \in {"idle", "done"} \/ req[r].op = "profile_update"
    /\ expired = {}

NextSeq ==
    \/ Quiet /\ \E r \in Workers, u \in Bookers, s \in SessionIds,
                   pu \in PayloadUsers : EnrollStart(r, u, s, pu)
    \/ Quiet /\ \E r \in Workers, u \in Bookers, pk \in 1..MaxEnrollmentId :
                   UnenrollStart(r, u, pk)
    \/ EnrollmentSteps
    \/ Quiet /\ Sweep_query
    \/ Sweep_save
    \/ \E r \in Workers : Respond(r)

SpecSeq == Init /\ [][NextSeq]_vars

\* Rating workflow on session s1: a regular user and the instructor, both
\* with a running subscription, enroll, leave, rate, update and delete
\* ratings while the instructor completes the session.  With requests in
\* parallel, either worker serves enroll, complete_session and rate
\* requests, and worker w2 serves the requests to leave and to update or
\* delete a rating.
RatingUsers == {"u1", "i1"}
RatingSessions == {"s1"}

InitRating ==
    /\ InitStore
    /\ subscriptions =
         {[id |-> 1, user |-> "u1", end_date |-> 2, is_active |-> TRUE],
          [id |-> 2, user |-> "i1", end_date |-> 2, is_active |-> TRUE]}
    /\ subscription_seq = 3
    /\ cash_balance = [u \in Users |-> 0]

RatingSteps ==
    \/ \E r \in Workers : Complete_get_object(r)
    \/ \E r \in Workers : Complete_prefetch(r)
    \/ \E r \in Workers : Complete_save(r)
    \/ SignalSteps
    \/ \E r \in Workers : Rating_validate(r)
    \/ \E r \in Workers : Rating_validate_rating(r)
    \/ \E r \in Workers : Rating_perform_create(r)
    \/ \E r \in Workers : Rating_save(r)
    \/ \E r \in Workers : RatingUpdate_get_object(r)
    \/ \E r \in Workers : RatingUpdate_perform_update(r)
    \/ \E r \in Workers : RatingUpdate_save(r)
    \/ \E r \in Workers : RatingDelete_get_object(r)
    \/ \E r \in Workers : RatingDelete_perform_destroy(r)

NextRating ==
    \/ \E r \in Workers, u \in RatingUsers, s \in RatingSessions :
          EnrollStart(r, u, s, Absent)
    \/ \E r \in {"w2"}, u \in RatingUsers, pk \in 1..MaxEnrollmentId :
          UnenrollStart(r, u, pk)
    \/ EnrollmentSteps
    \/ \E r \in Workers, u \in RatingUsers, s \in RatingSessions :
          CompleteStart(r, u, s)
    \/ \E r \in Workers, u \in RatingUsers, s \in RatingSessions,
          score \in {MinRating, MaxRating + 1} : RateStart(r, u, s, score)
    \/ \E r \in {"w2"}, u \in RatingUsers, s \in RatingSessions,
          pk \in 1..MaxRatingId, score \in {MaxRating} :
          RatingUpdateStart(r, u, s, pk, score)
    \/ \E r \in {"w2"}, u \in RatingUsers, s \in RatingSessions,
          pk \in 1..MaxRatingId : RatingDeleteStart(r, u, s, pk)
    \/ RatingSteps
    \/ \E r \in Workers : Respond(r)

SpecRating == InitRating /\ [][NextRating]_vars

\* The rating workflow with one request served at a time.
NextRatingSeq ==
    \/ Quiet /\ \E r \in Workers, u \in RatingUsers, s \in RatingSessions :
                   EnrollStart(r, u, s, Absent)
    \/ Quiet /\ \E r \in Workers, u \in RatingUsers,
                   pk \in 1..MaxEnrollmentId : UnenrollStart(r, u, pk)
    \/ EnrollmentSteps
    \/ Quiet /\ \E r \in Workers, u \in RatingUsers, s \in RatingSessions :
                   CompleteStart(r, u, s)
    \/ Quiet /\ \E r \in Workers, u \in RatingUsers, s \in RatingSessions,
                   score \in ScoreInputs : RateStart(r, u, s, score)
    \/ Quiet /\ \E r \in Workers, u \in RatingUsers, s \in RatingSessions,
                   pk \in 1..MaxRatingId, score \in ScoreInputs :
                   RatingUpdateStart(r, u, s, pk, score)
    \/ Quiet /\ \E r \in Workers, u \in RatingUsers, s \in RatingSessions,
                   pk \in 1..MaxRatingId : RatingDeleteStart(r, u, s, pk)
    \/ RatingSteps
    \/ \E r \in Workers : Respond(r)

SpecRatingSeq == InitRating /\ [][NextRatingSeq]_vars

\* Instructor-rating workflow, one request served at a time by worker w1:
\* u1, with a running subscription, enrolls in and leaves the sessions of
\* i1, i1 completes them, and u1 rates i1 or i2 (who owns no session).
\* While w1 serves a delete of an instructor rating, worker w2 may serve
\* a second delete of the same rating (the first one, stored alone), so
\* that the two interleave.
InitInstructorRating ==
    /\ InitStore
    /\ subscriptions =
         {[id |-> 1, user |-> "u1", end_date |-> 2, is_active |-> TRUE]}
    /\ subscription_seq = 2
    /\ cash_balance = [u \in Users |-> 0]

InstructorRatingSteps ==
    \/ \E r \in Workers : Complete_get_object(r)
    \/ \E r \in Workers : Complete_prefetch(r)
    \/ \E r \in Workers : Complete_save(r)
    \/ SignalSteps
    \/ \E r \in Workers : InstructorRating_validate(r)
    \/ \E r \in Workers : InstructorRating_save(r)
    \/ \E r \in Workers : InstructorRatingUpdate_get_object(r)
    \/ \E r \in Workers : InstructorRatingUpdate_save(r)
    \/ \E r \in Workers : InstructorRatingDelete_get_object(r)
    \/ \E r \in Workers : InstructorRatingDelete_destroy(r)
    \/ \E r \in Workers : InstructorRatingDelete_perform_destroy(r)

NextInstructorRatingSeq ==
    \/ Quiet /\ \E r \in {"w1"}, s \in Sessions :
                   EnrollStart(r, "u1", s, Absent)
    \/ Quiet /\ \E r \in {"w1"}, pk \in 1..MaxEnrollmentId :
                   UnenrollStart(r, "u1", pk)
    \/ EnrollmentSteps
    \/ Quiet /\ \E r \in {"w1"}, s \in Sessions :
                   CompleteStart(r, "i1", s)
    \/ Quiet /\ \E r \in {"w1"}, i \in Instructors,
                   score \in ScoreInputs, comment \in CommentInputs :
                   InstructorRateStart(r, "u1", i, score, comment)
    \/ Quiet /\ \E r \in {"w1"}, u \in RegularUsers, i \in Instructors,
                   pk \in 1..MaxInstructorRatingId,
                   payload \in InstructorRatingUpdateInputs :
                   InstructorRatingUpdateStart(r, u, i, pk, payload)
    \/ Quiet /\ \E r \in {"w1"}, u \in RegularUsers, i \in Instructors,
                   pk \in 1..MaxInstructorRatingId :
                   InstructorRatingDeleteStart(r, u, i, pk)
    \/ /\ req["w1"].op = "instructor_rating_delete"
       /\ req["w1"].pc = "destroy"
       /\ req["w1"].pk = 1
       /\ Cardinality(instructor_ratings) = 1
       /\ InstructorRatingDeleteStart("w2", req["w1"].user,
                                      req["w1"].instructor, req["w1"].pk)
    \/ InstructorRatingSteps
    \/ \E r \in Workers : Respond(r)

SpecInstructorRatingSeq ==
    InitInstructorRating /\ [][NextInstructorRatingSeq]_vars

\* Creation, one call at a time: starting from empty tables, the
\* instructors create sessions under the base names, and users create,
\* rename and delete techniques and add them to the first session.
InitCreate ==
    /\ enrollments = {}
    /\ enrollment_seq = 1
    /\ ratings = {}
    /\ rating_seq = 1
    /\ is_completed = [s \in SessionPool |-> FALSE]
    /\ max_participants = [s \in SessionPool |-> 0]
    /\ stored = {}
    /\ session_seq = 1
    /\ session_name = [s \in SessionPool |-> <<>>]
    /\ session_instructor = [s \in SessionPool |-> Absent]
    /\ duration = [s \in SessionPool |-> 0]
    /\ techniques = [s \in SessionPool |-> {}]
    /\ technique_rows = {}
    /\ technique_seq = 1
    /\ instructor_ratings = {}
    /\ instructor_rating_seq = 1
    /\ cash_balance = [u \in Users |-> 0]
    /\ subscriptions = {}
    /\ subscription_seq = 1
    /\ profile = [u \in RegularUsers |->
                    [sessions_attended |-> 0, total_time_spent |-> 0]]
    /\ now = 1
    /\ expired = {}
    /\ req = [r \in Workers |-> Idle]

NextCreateSeq ==
    \/ Quiet /\ \E r \in {"w1"}, nm \in BaseNames, i \in Instructors :
                   SessionCreateStart(r, nm, i)
    \/ \E r \in Workers : Session_create_count(r)
    \/ \E r \in Workers : Session_create_save(r)
    \/ Quiet /\ \E r \in {"w1"}, u \in Instructors, tn \in TechniqueNames :
                   AddTechniqueStart(r, u, "s1", tn)
    \/ \E r \in Workers : AddTechnique_get_object(r)
    \/ \E r \in Workers : AddTechnique_get_technique(r)
    \/ \E r \in Workers : AddTechnique_add(r)
    \/ Quiet /\ \E r \in {"w1"}, u \in Users \ {"u2"},
                   tn \in TechniqueNames : TechniqueCreateStart(r, u, tn)
    \/ \E r \in Workers : TechniqueCreate_validate(r)
    \/ \E r \in Workers : TechniqueCreate_save(r)
    \/ Quiet /\ \E r \in {"w1"}, u \in Instructors,
                   pk \in 1..MaxTechniqueId, tn \in TechniqueNames :
                   TechniqueUpdateStart(r, u, pk, tn)
    \/ \E r \in Workers : TechniqueUpdate_get_object(r)
    \/ \E r \in Workers : TechniqueUpdate_validate(r)
    \/ \E r \in Workers : TechniqueUpdate_perform_update(r)
    \/ \E r \in Workers : TechniqueUpdate_save(r)
    \/ Quiet /\ \E r \in {"w1"}, u \in Instructors,
                   pk \in 1..MaxTechniqueId : TechniqueDeleteStart(r, u, pk)
    \/ \E r \in Workers : TechniqueDelete_get_object(r)
    \/ \E r \in Workers : TechniqueDelete_perform_destroy(r)
    \/ \E r \in Workers : Respond(r)

SpecCreateSeq == InitCreate /\ [][NextCreateSeq]_vars

\* Creation with requests in parallel: two workers create sessions for i1
\* in an empty table, through MeditationSession.create and through the API.
NextCreate ==
    \/ \E r \in Workers, nm \in BaseNames : SessionCreateStart(r, nm, "i1")
    \/ \E r \in Workers : Session_create_count(r)
    \/ \E r \in Workers : Session_create_save(r)
    \/ \E r \in Workers, nm \in PostNames : SessionPostStart(r, "i1", nm)
    \/ \E r \in Workers : SessionPost_validate(r)
    \/ \E r \in Workers : SessionPost_save(r)
    \/ \E r \in Workers : Respond(r)

SpecCreate == InitCreate /\ [][NextCreate]_vars

\* Session naming with deletions and renames, one request at a time:
\* starting from an empty table, i1 creates sessions under the base names,
\* posts sessions under names of the client's choice, deletes sessions and
\* renames them; the regular user u1 posts sessions too.
NextNamingSeq ==
    \/ Quiet /\ \E r \in {"w1"}, nm \in BaseNames :
                   SessionCreateStart(r, nm, "i1")
    \/ \E r \in Workers : Session_create_count(r)
    \/ \E r \in Workers : Session_create_save(r)
    \/ Quiet /\ \E r \in {"w1"}, u \in {"i1", "u1"}, nm \in PostNames :
                   SessionPostStart(r, u, nm)
    \/ \E r \in Workers : SessionPost_validate(r)
    \/ \E r \in Workers : SessionPost_save(r)
    \/ Quiet /\ \E r \in {"w1"}, s \in SessionPool :
                   SessionDeleteStart(r, "i1", s)
    \/ \E r \in Workers : SessionDelete_get_object(r)
    \/ \E r \in Workers : SessionDelete_destroy(r)
    \/ Quiet /\ \E r \in {"w1"}, s \in SessionPool,
                   payload \in {p \in UpdateInputs : p.name # <<>>} :
                   SessionUpdateStart(r, "i1", s, payload)
    \/ \E r \in Workers : SessionUpdate_get_object(r)
    \/ \E r \in Workers : SessionUpdate_prefetch(r)
    \/ \E r \in Workers : SessionUpdate_validate(r)
    \/ \E r \in Workers : SessionUpdate_perform_update(r)
    \/ \E r \in Workers : SessionUpdate_save(r)
    \/ \E r \in Workers : Respond(r)

SpecNamingSeq == InitCreate /\ [][NextNamingSeq]_vars

\* Session management on session s1, owned by i1: the owner, another
\* instructor and a regular user send update, delete, complete_session and
\* add_technique requests, and the two instructors delete the technique of
\* i2; the requests interleave.
SessionUsers == {"i1", "i2", "u1"}
ManagedSessions == {"s1"}

InitSession ==
    /\ InitStore
    /\ subscriptions = {}
    /\ subscription_seq = 1
    /\ cash_balance = [u \in Users |-> 0]

SessionSteps ==
    \/ \E r \in Workers : SessionUpdate_get_object(r)
    \/ \E r \in Workers : SessionUpdate_prefetch(r)
    \/ \E r \in Workers : SessionUpdate_validate(r)
    \/ \E r \in Workers : SessionUpdate_perform_update(r)
    \/ \E r \in Workers : SessionUpdate_save(r)
    \/ \E r \in Workers : SessionDelete_get_object(r)
    \/ \E r \in Workers : SessionDelete_destroy(r)
    \/ \E r \in Workers : Complete_get_object(r)
    \/ \E r \in Workers : Complete_prefetch(r)
    \/ \E r \in Workers : Complete_save(r)
    \/ \E r \in Workers : AddTechnique_get_object(r)
    \/ \E r \in Workers : AddTechnique_get_technique(r)
    \/ \E r \in Workers : AddTechnique_add(r)
    \/ \E r \in Workers : TechniqueDelete_get_object(r)
    \/ \E r \in Workers : TechniqueDelete_perform_destroy(r)

NextSession ==
    \/ \E r \in Workers, u \in SessionUsers, s \in ManagedSessions,
          payload \in {p \in UpdateInputs : p.duration = -1} :
          SessionUpdateStart(r, u, s, payload)
    \/ \E r \in Workers, u \in SessionUsers, s \in ManagedSessions :
          SessionDeleteStart(r, u, s)
    \/ \E r \in Workers, u \in SessionUsers, s \in ManagedSessions :
          CompleteStart(r, u, s)
    \/ \E r \in Workers, u \in SessionUsers, s \in ManagedSessions,
          tn \in TechniqueNames : AddTechniqueStart(r, u, s, tn)
    \/ \E r \in Workers, u \in Instructors, pk \in {1} :
          TechniqueDeleteStart(r, u, pk)
    \/ SessionSteps
    \/ \E r \in Workers : Respond(r)

SpecSession == InitSession /\ [][NextSession]_vars

\* Profile statistics, one request at a time: u1 and i1, both with a
\* running subscription, enroll in and leave the sessions of i1, and i1
\* completes the sessions and changes their max_participants.
NextProfileSeq ==
    \/ Quiet /\ \E r \in {"w1"}, u \in RatingUsers, s \in Sessions :
                   EnrollStart(r, u, s, Absent)
    \/ Quiet /\ \E r \in {"w1"}, u \in RatingUsers,
                   pk \in 1..MaxEnrollmentId : UnenrollStart(r, u, pk)
    \/ EnrollmentSteps
    \/ Quiet /\ \E r \in {"w1"}, s \in Sessions :
                   CompleteStart(r, "i1", s)
    \/ \E r \in Workers : Complete_get_object(r)
    \/ \E r \in Workers : Complete_prefetch(r)
    \/ \E r \in Workers : Complete_save(r)
    \/ SignalSteps
    \/ Quiet /\ \E r \in {"w1"}, s \in Sessions,
                   payload \in {p \in UpdateInputs : p.name = <<>>} :
                   SessionUpdateStart(r, "i1", s, payload)
    \/ \E r \in Workers : SessionUpdate_get_object(r)
    \/ \E r \in Workers : SessionUpdate_prefetch(r)
    \/ \E r \in Workers : SessionUpdate_validate(r)
    \/ \E r \in Workers : SessionUpdate_perform_update(r)
    \/ \E r \in Workers : SessionUpdate_save(r)
    \/ \E r \in Workers : Respond(r)

SpecProfileSeq == InitRating /\ [][NextProfileSeq]_vars

\* Capacity management, one request at a time: u1 and i1 enroll and leave
\* while the owner i1 lowers or restores max_participants.
NextCapacitySeq ==
    \/ Quiet /\ \E r \in {"w1"}, u \in RatingUsers, s \in Sessions :
                   EnrollStart(r, u, s, Absent)
    \/ Quiet /\ \E r \in {"w1"}, u \in RatingUsers,
                   pk \in 1..MaxEnrollmentId : UnenrollStart(r, u, pk)
    \/ EnrollmentSteps
    \/ Quiet /\ \E r \in {"w1"}, s \in Sessions,
                   payload \in
                     {[name |-> <<>>, max_participants |-> mp,
                       duration |-> -1] : mp \in 0..(MaxCapacity - 1)}
                     \cup {p \in UpdateInputs : p.name = <<>>} :
                   SessionUpdateStart(r, "i1", s, payload)
    \/ \E r \in Workers : SessionUpdate_get_object(r)
    \/ \E r \in Workers : SessionUpdate_prefetch(r)
    \/ \E r \in Workers : SessionUpdate_validate(r)
    \/ \E r \in Workers : SessionUpdate_perform_update(r)
    \/ \E r \in Workers : SessionUpdate_save(r)
    \/ \E r \in Workers : Respond(r)

SpecCapacitySeq == InitRating /\ [][NextCapacitySeq]_vars

\* Profile statistics over the life of sessions, one request at a time on
\* worker w1: the regular user u1 enrolls and leaves while the owner i1
\* completes, updates and deletes sessions; no staff user is enrolled.
\* Worker w2 serves updates of a profile, at any time.
NextStatisticsSeq ==
    \/ Quiet /\ \E r \in {"w1"}, s \in Sessions :
                   EnrollStart(r, "u1", s, Absent)
    \/ Quiet /\ \E r \in {"w1"}, pk \in 1..MaxEnrollmentId :
                   UnenrollStart(r, "u1", pk)
    \/ EnrollmentSteps
    \/ Quiet /\ \E r \in {"w1"}, s \in Sessions :
                   CompleteStart(r, "i1", s)
    \/ \E r \in Workers : Complete_get_object(r)
    \/ \E r \in Workers : Complete_prefetch(r)
    \/ \E r \in Workers : Complete_save(r)
    \/ SignalSteps
    \/ Quiet /\ \E r \in {"w1"}, s \in Sessions,
                   payload \in {p \in UpdateInputs : p.name = <<>>} :
                   SessionUpdateStart(r, "i1", s, payload)
    \/ \E r \in Workers : SessionUpdate_get_object(r)
    \/ \E r \in Workers : SessionUpdate_prefetch(r)
    \/ \E r \in Workers : SessionUpdate_validate(r)
    \/ \E r \in Workers : SessionUpdate_perform_update(r)
    \/ \E r \in Workers : SessionUpdate_save(r)
    \/ Quiet /\ \E r \in {"w1"}, s \in Sessions :
                   SessionDeleteStart(r, "i1", s)
    \/ \E r \in Workers : SessionDelete_get_object(r)
    \/ \E r \in Workers : SessionDelete_destroy(r)
    \/ \E r \in {"w2"}, u \in RatingUsers, owner \in RegularUsers,
          valid \in BOOLEAN : ProfileUpdateStart(r, u, owner, valid)
    \/ \E r \in Workers : ProfileUpdate_get_object(r)
    \/ \E r \in Workers : ProfileUpdate_perform_update(r)
    \/ \E r \in Workers : Respond(r)

SpecStatisticsSeq == InitRating /\ [][NextStatisticsSeq]_vars

\* Subscription billing, one request at a time: u1 (whose subscription has
\* passed its end_date and waits for the sweep) and u2 (whose subscription
\* is running) hold one of the set-up balances and buy or renew.
InitPurchase ==
    /\ InitStore
    /\ \E b1, b2 \in BalanceInputs :
          cash_balance = [u \in Users |->
                            IF u = "u1" THEN b1
                            ELSE IF u = "u2" THEN b2 ELSE 0]
    /\ subscriptions =
         {[id |-> 1, user |-> "u1", end_date |-> 0, is_active |-> TRUE],
          [id |-> 2, user |-> "u2", end_date |-> 2, is_active |-> TRUE]}
    /\ subscription_seq = 3

PurchaseSteps ==
    \/ \E r \in Workers : Purchase_deduct(r)
    \/ \E r \in Workers : Purchase_get_active_subscription(r)
    \/ \E r \in Workers : Purchase_extend(r)
    \/ \E r \in Workers : Purchase_create(r)

NextPurchaseSeq ==
    \/ Quiet /\ \E r \in {"w1"}, u \in RegularUsers, numeric \in BOOLEAN :
                  PurchaseStart(r, u, numeric)
    \/ PurchaseSteps
    \/ Quiet /\ Sweep_query
    \/ Sweep_save
    \/ \E r \in Workers : Respond(r)

SpecPurchaseSeq == InitPurchase /\ [][NextPurchaseSeq]_vars

\* Subscription billing over time, one request at a time: purchases and
\* sweeps before and after the clock has moved past the end dates.
NextSubscriptionSeq ==
    \/ NextPurchaseSeq
    \/ Quiet /\ Tick

SpecSubscriptionSeq == InitPurchase /\ [][NextSubscriptionSeq]_vars

\* Subscription billing with requests in parallel: two workers serve
\* purchase_or_renew, add-funds and user update requests of u1 while the
\* sweep runs row by row.

NextBilling ==
    \/ /\ subscription_seq + InFlight("purchase") <= MaxSubscriptionId
       /\ \A sub \in subscriptions : sub.end_date <= MaxEndDate
       /\ \E r \in Workers, u \in {"u1"}, numeric \in BOOLEAN :
             PurchaseStart(r, u, numeric)
    \/ PurchaseSteps
    \/ \E r \in Workers, u \in {"u1"}, amount \in AmountInputs,
          numeric \in BOOLEAN :
          /\ cash_balance[u] + amount.value <= MaxBalance
          /\ AddFundsStart(r, u, amount, numeric)
    \/ \E r \in Workers : AddFunds_post(r)
    \/ \E r \in Workers, u \in {"u1"}, valid \in BOOLEAN,
          password \in BOOLEAN :
          /\ valid \/ ~ password
          /\ UserUpdateStart(r, u, valid, password)
    \/ \E r \in Workers : UserUpdate_update(r)
    \/ \E r \in Workers : UserUpdate_set_password(r)
    \/ Sweep_query
    \/ Sweep_save
    \/ \E r \in Workers : Respond(r)

SpecBilling == InitPurchase /\ [][NextBilling]_vars

(***************************************************************************)
(* Properties                                                              *)
(***************************************************************************)
\* A user is entitled when a Subscription row of theirs has is_active set.
HasActiveSubscription(u) ==
    \E sub \in subscriptions : sub.user = u /\ sub.is_active

IsEnrolled(u, s) == \E e \in enrollments : e.user = u /\ e.session = s

IsFull(s) == Cardinality({e \in enrollments : e.session = s})
                >= max_participants[s]

\* Worker r takes the step that ends its request of kind op.
Finishes(r, op) ==
    /\ req[r].op = op
    /\ req[r].pc \notin {"idle", "done"}
    /\ req'[r].pc = "done"

\* C1: for every session the number of Enrollment rows never exceeds
\* max_participants, also when enroll requests of different users
\* interleave between the capacity check and the insert.
C1_CapacityNeverExceeded ==
    \A s \in Sessions :
        Cardinality({e \in enrollments : e.session = s}) <= max_participants[s]

\* C2: for every (user, session) pair at most one Enrollment row exists,
\* also when the same user submits two enroll requests concurrently.
C2_AtMostOneEnrollmentPerPair ==
    \A e1, e2 \in enrollments :
        (e1.user = e2.user /\ e1.session = e2.session) => e1 = e2

\* Two requests of one user for the one-seat session s1 have both passed
\* the capacity check; one inserted, the other hit the constraint.
C2_ConcurrentDoubleSubmit ==
    \E r1, r2 \in Workers :
        /\ r1 # r2
        /\ req[r1].pc = "done" /\ req[r2].pc = "done"
        /\ req[r1].op = "enroll" /\ req[r2].op = "enroll"
        /\ req[r1].user = req[r2].user
        /\ req[r1].session = "s1" /\ req[r2].session = "s1"
        /\ req[r1].result = "CREATED"
        /\ req[r2].result = "ALREADY_ENROLLED"

\* C3: an Enrollment row is created by enroll only for a requester who has
\* a Subscription row with is_active set at the time of the request, and an
\* enroll request for a stored session by a user without one ends with the
\* subscription-required error and creates no Enrollment row.
C3_NoSubscriptionGetsSubscriptionRequired ==
    [][/\ \A e \in enrollments' \ enrollments :
             \E r \in Workers :
                 /\ At(r, "enroll", "save")
                 /\ req[r].user = e.user /\ req[r].session = e.session
                 /\ HasActiveSubscription(e.user)
       /\ \A r \in Workers :
             (/\ Finishes(r, "enroll")
              /\ req[r].pc \in {"validate", "perform_create"}
              /\ req[r].session \in Sessions
              /\ ~ HasActiveSubscription(req[r].user))
             => (/\ req'[r].result = "SUBSCRIPTION_REQUIRED"
                 /\ enrollments' = enrollments)]_vars

\* The outcome of enroll when the preconditions are evaluated in the order
\* session-exists, active-subscription, not-already-enrolled, capacity.
OutcomeSubscriptionFirst(u, s) ==
    IF ~ HasActiveSubscription(u) THEN "SUBSCRIPTION_REQUIRED"
    ELSE IF IsEnrolled(u, s) THEN "ALREADY_ENROLLED"
    ELSE IF IsFull(s) THEN "SESSION_FULL"
    ELSE "CREATED"

\* C4: for a stored session the answer of enroll is the error of the first
\* failing precondition in the order active-subscription,
\* not-already-enrolled, capacity-available: SUBSCRIPTION_REQUIRED for a
\* user without an active subscription also when the session is full, and
\* ALREADY_ENROLLED for an enrolled user also when the session is full.
C4_SubscriptionCheckedBeforeCapacity ==
    [][\A r \in Workers :
          (Finishes(r, "enroll") /\ req[r].session \in Sessions)
          => req'[r].result =
                 OutcomeSubscriptionFirst(req[r].user, req[r].session)]_vars

\* C5: an enroll request whose session id matches no stored session is
\* answered NOT_FOUND (never an unhandled failure) and creates no row.
C5_MissingSessionIsNotFound ==
    \A r \in Workers :
        (req[r].pc = "done" /\ req[r].op = "enroll"
            /\ req[r].session \notin Sessions)
        => req[r].result = "NOT_FOUND"

\* C6: an enroll request rejected as session-full or already-enrolled
\* creates no Enrollment row and leaves the stored rows unchanged, and a
\* duplicate caught by the uniqueness constraint at the insert is answered
\* with the already-enrolled error, not with a raw storage error.
C6_RejectedEnrollChangesNothing ==
    [][\A r \in Workers :
          Finishes(r, "enroll")
          => /\ req'[r].result \in {"SESSION_FULL", "ALREADY_ENROLLED"}
                  => (enrollments' = enrollments
                        /\ enrollment_seq' = enrollment_seq)
             /\ (req[r].pc = "save"
                   /\ IsEnrolled(req[r].user, req[r].session))
                  => req'[r].result = "ALREADY_ENROLLED"
             /\ req'[r].result = "ALREADY_ENROLLED"
                  => (req[r].pc = "save"
                        /\ IsEnrolled(req[r].user, req[r].session))]_vars

\* A repeated enroll into a session with free seats was stopped by the
\* constraint alone, and the first enrollment is still there.
C6_DuplicateCaughtByConstraint ==
    \E r \in Workers :
        /\ req[r].pc = "done" /\ req[r].op = "enroll"
        /\ req[r].result = "ALREADY_ENROLLED"
        /\ ~ IsFull(req[r].session)
        /\ Cardinality({e \in enrollments : e.user = req[r].user
                           /\ e.session = req[r].session}) = 1

\* The effect of a successful enroll of worker r: exactly one new row, of
\* the requesting user and the requested session, and nothing else changes.
CreatesOwnEnrollment(r) ==
    /\ req'[r].result = "CREATED"
    /\ \E e \in enrollments' :
          /\ e \notin enrollments
          /\ enrollments' = enrollments \cup {e}
          /\ e.user = req[r].user
          /\ e.session = req[r].session
          /\ e.id = req'[r].pk
    /\ UNCHANGED <<ratings, is_completed, max_participants, subscriptions,
                   profile>>

C8_OnlyOwnerDeletes ==
    [][/\ \A e \in enrollments \ enrollments' :
             \E r \in Workers :
                 /\ At(r, "unenroll", "destroy")
                 /\ req[r].user = e.user /\ req[r].pk = e.id
                 /\ req'[r].result = "NO_CONTENT"
                 /\ enrollments' = enrollments \ {e}
       /\ \A r \in Workers :
             (Finishes(r, "unenroll")
                /\ \E e \in enrollments :
                      e.id = req[r].pk /\ e.user # req[r].user)
             => (req'[r].result = "NOT_FOUND"
                   /\ enrollments' = enrollments)
       /\ \A r \in Workers :
             (At(r, "unenroll", "get_object") /\ req'[r] # req[r]
                /\ \E e \in enrollments :
                      e.id = req[r].pk /\ e.user = req[r].user)
             => req'[r].pc = "destroy"]_vars

\* A user asked to delete another user's enrollment, got not-found, and the
\* enrollment is still stored.
C8_ForeignDeleteRefused ==
    \E r \in Workers :
        /\ req[r].pc = "done" /\ req[r].op = "unenroll"
        /\ req[r].result = "NOT_FOUND"
        /\ \E e \in enrollments : e.id = req[r].pk /\ e.user # req[r].user

\* C9: for every (user, session) pair at most one Rating row exists, also
\* when the same user submits two rate_session requests concurrently.
C9_AtMostOneRatingPerPair ==
    \A r1, r2 \in ratings :
        (r1.user = r2.user /\ r1.session = r2.session) => r1 = r2

\* C10: every Rating(user, session) row is accompanied by an
\* Enrollment(user, session) row and a completed session, after any
\* sequence of enroll, unenroll, complete_session, rate_session and rating
\* update.
C10_RatingHasEnrollmentAndCompletedSession ==
    \A rt \in ratings :
        /\ \E e \in enrollments : e.user = rt.user /\ e.session = rt.session
        /\ is_completed[rt.session]

HasRated(u, s) == \E rt \in ratings : rt.user = u /\ rt.session = s

\* C11 as stated: a rate_session request with a valid score by the
\* session's own instructor on their completed session ends with the
\* self-rating error, whether or not the instructor is enrolled.
C11_InstructorAlwaysGetsSelfRatingError ==
    [][\A r \in Workers :
          (/\ Finishes(r, "rate")
           /\ req[r].session \in Sessions
           /\ req[r].user = instructor(req[r].session)
           /\ is_completed[req[r].session]
           /\ valid_rating(req[r].score))
          => req'[r].result = "SELF_RATING_FORBIDDEN"]_vars

\* C11 amended: a rate_session request with a valid score by the session's
\* own instructor is always rejected, with the self-rating error when the
\* instructor holds an Enrollment in the session and with the not-enrolled
\* error when they hold none, and no Rating row with user =
\* session.instructor is ever created through rate_session.
C11_InstructorNeverRatesOwnSession ==
    [][/\ \A rt \in ratings' \ ratings : rt.user # instructor(rt.session)
       /\ \A r \in Workers :
             (/\ Finishes(r, "rate")
              /\ req[r].session \in Sessions
              /\ req[r].user = instructor(req[r].session)
              /\ valid_rating(req[r].score))
             => /\ ratings' = ratings
                /\ req[r].pc \in {"validate", "validate_rating"}
                /\ req[r].pc = "validate"
                     => (req'[r].result = "NOT_ENROLLED"
                           /\ ~ IsEnrolled(req[r].user, req[r].session))
                /\ req[r].pc = "validate_rating"
                     => req'[r].result = "SELF_RATING_FORBIDDEN"]_vars

\* The instructor, enrolled in their own completed session, asked to rate
\* it and got the self-rating error; no rating of theirs is stored.
C11_EnrolledInstructorRefused ==
    \E r \in Workers :
        /\ req[r].pc = "done" /\ req[r].op = "rate"
        /\ req[r].user = instructor(req[r].session)
        /\ req[r].result = "SELF_RATING_FORBIDDEN"
        /\ is_completed[req[r].session]
        /\ IsEnrolled(req[r].user, req[r].session)
        /\ ~ HasRated(req[r].user, req[r].session)

\* A request that passes every check of rate_session but the completion
\* test: a valid score, sent by an enrolled user who is not the instructor
\* and has not rated the session.
RateRequestInOrder(r) ==
    /\ req[r].session \in Sessions
    /\ valid_rating(req[r].score)
    /\ IsEnrolled(req[r].user, req[r].session)
    /\ req[r].user # instructor(req[r].session)
    /\ ~ HasRated(req[r].user, req[r].session)

\* C12: such a request for a session whose is_completed flag is false is
\* rejected with the session-not-completed error and creates no Rating row;
\* once complete_session has set the flag the same request succeeds and
\* stores the requester's rating.
C12_RatingNeedsCompletedSession ==
    [][\A r \in Workers :
          (Finishes(r, "rate") /\ RateRequestInOrder(r))
          => IF is_completed[req[r].session]
             THEN /\ req'[r].result = "CREATED"
                  /\ ratings' = ratings \cup
                       {[id |-> req'[r].pk, user |-> req[r].user,
                         session |-> req[r].session,
                         rating |-> req[r].score]}
                  /\ req'[r].pk = rating_seq
             ELSE /\ req'[r].result = "SESSION_NOT_COMPLETED"
                  /\ ratings' = ratings]_vars

\* A rating request was refused while the session was running; the session
\* has since been completed and the same user's rating is stored.
C12_RefusedThenAccepted ==
    \E r1, r2 \in Workers :
        /\ r1 # r2
        /\ req[r1].pc = "done" /\ req[r1].op = "rate"
        /\ req[r1].result = "SESSION_NOT_COMPLETED"
        /\ req[r2].pc = "done" /\ req[r2].op = "rate"
        /\ req[r2].result = "CREATED"
        /\ req[r2].user = req[r1].user
        /\ req[r2].session = req[r1].session
        /\ is_completed[req[r1].session]
        /\ HasRated(req[r1].user, req[r1].session)

\* The user holds an Enrollment in a completed session taught by i.
AttendedCompletedSessionOf(u, i) ==
    \E e \in enrollments :
        /\ e.user = u
        /\ e.session \in stored
        /\ session_instructor[e.session] = i
        /\ is_completed[e.session]

\* C13: rate_instructor creates an InstructorRating(user, instructor) only
\* if at that time the user holds an Enrollment in a completed session whose
\* instructor is the rated one; a request with a well-formed score and
\* comment from a user without such an enrollment ends with the not-attended
\* error and creates no row, also when the user is enrolled in a session of
\* that instructor that is not completed.
C13_InstructorRatingNeedsAttendedSession ==
    [][/\ \A ir \in instructor_ratings' :
             (~ \E x \in instructor_ratings : x.id = ir.id)
             => /\ AttendedCompletedSessionOf(ir.user, ir.instructor)
                /\ \E r \in Workers :
                       /\ At(r, "rate_instructor", "save")
                       /\ req[r].user = ir.user
                       /\ req[r].instructor = ir.instructor
       /\ \A r \in Workers :
             (/\ Finishes(r, "rate_instructor")
              /\ req[r].pc = "validate"
              /\ validate_rating(req[r].score)
              /\ validate_comment(req[r].comment)
              /\ ~ AttendedCompletedSessionOf(req[r].user,
                                              req[r].instructor))
             => (/\ req'[r].result = "NOT_ATTENDED"
                 /\ instructor_ratings' = instructor_ratings)]_vars

\* u1 was refused while enrolled only in sessions of i1 that were not
\* completed, and rated i1 after a session was completed.
C13_RefusedThenRated ==
    /\ \E r \in Workers :
           /\ req[r].op = "rate_instructor" /\ req[r].pc = "done"
           /\ req[r].result = "NOT_ATTENDED"
           /\ req[r].instructor = "i1"
    /\ \E e \in enrollments :
           e.user = "u1" /\ ~ is_completed[e.session]
    /\ \E ir \in instructor_ratings :
           ir.user = "u1" /\ ir.instructor = "i1"

\* The position of a primary key in the order the keys are handed out.
KeyIndex(s) == CHOOSE n \in 1..Len(SessionKeys) : SessionKeys[n] = s

\* The stored sessions whose name begins with the base name B.
NamesBeginningWith(B) == {s \in stored : startswith(session_name[s], B)}

\* The text "B #n".
Numbered(B, n) == B \o <<" ", "#">> \o str(n)

\* Every stored name that begins with B is B followed by " #" and a suffix:
\* no name made from another base name begins with B.
OnlyNumberedNames(B) ==
    \A s \in NamesBeginningWith(B) :
        /\ Len(session_name[s]) > Len(B) + 2
        /\ SubSeq(session_name[s], Len(B) + 1, Len(B) + 2) = <<" ", "#">>

\* C14: when sessions are created one after the other under a base name B,
\* nothing is deleted or renamed and no other stored name begins with B, the
\* stored names are "B #1", "B #2", ..., "B #k" in the order of creation.
C14_SequentialNumbering ==
    \A B \in BaseNames :
        OnlyNumberedNames(B) =>
            \A s \in NamesBeginningWith(B) :
                session_name[s] = Numbered(B,
                    Cardinality({x \in NamesBeginningWith(B) :
                                    KeyIndex(x) <= KeyIndex(s)}))

\* Three sessions were created under the base name A and are stored as
\* "A #1", "A #2", "A #3".
C14_ThreeInSequence ==
    /\ OnlyNumberedNames(<<"A">>)
    /\ {session_name[s] : s \in NamesBeginningWith(<<"A">>)}
          = {<<"A", " ", "#", "1">>, <<"A", " ", "#", "2">>,
             <<"A", " ", "#", "3">>}

\* C17: once is_completed of a stored session is true it stays true under
\* every later operation for as long as the session is stored.
C17_CompletionIsOneWay ==
    [][\A s \in SessionPool :
          (s \in stored /\ is_completed[s] /\ s \in stored')
          => is_completed'[s]]_vars

\* The requests that change a session.
SessionMutations ==
    {"session_update", "session_delete", "complete", "add_technique"}

\* Worker r serves a session-changing request for a stored session sent by a
\* user who is not the session's instructor.
ForeignSessionRequest(r) ==
    /\ req[r].op \in SessionMutations
    /\ req[r].pc \notin {"idle", "done"}
    /\ req[r].session \in stored
    /\ session_instructor[req[r].session] # req[r].user

\* C16: an update, delete, complete_session or add_technique request for a
\* session sent by any user other than its instructor changes neither the
\* session's fields, instructor, techniques, completion flag nor its
\* existence, and ends as forbidden (an update is answered once its payload
\* has passed the serializer).
C16_OnlyOwnerMutates ==
    [][\A r \in Workers :
          (ForeignSessionRequest(r) /\ req'[r] # req[r])
          => (/\ stored' = stored
              /\ session_name' = session_name
              /\ session_instructor' = session_instructor
              /\ max_participants' = max_participants
              /\ is_completed' = is_completed
              /\ duration' = duration
              /\ techniques' = techniques
              /\ req'[r].pc # "save" /\ req'[r].pc # "destroy"
              /\ req'[r].pc # "add" /\ req'[r].pc # "get_technique"
              /\ (req'[r].pc = "done" /\ req[r].pc # "validate")
                    => req'[r].result = "FORBIDDEN")]_vars

\* Another instructor was refused the deletion of s1 and a regular user was
\* refused an update of it; s1 is stored as it was created.
C16_ForeignRequestsRefused ==
    /\ \E r \in Workers :
           /\ req[r].op = "session_delete" /\ req[r].pc = "done"
           /\ req[r].user = "i2" /\ req[r].result = "FORBIDDEN"
    /\ \E r \in Workers :
           /\ req[r].op = "session_update" /\ req[r].pc = "done"
           /\ req[r].user = "u1" /\ req[r].result = "FORBIDDEN"
    /\ "s1" \in stored
    /\ session_row("s1") = [name |-> <<"A", " ", "#", "1">>,
                            max_participants |-> 1, is_completed |-> FALSE,
                            instructor |-> "i1", duration |-> 1]

\* C15: after any sequence of creations, deletions and renames, a call of
\* MeditationSession.create succeeds and stores a name that no stored
\* session holds.
C15_CreateAlwaysStoresUniqueName ==
    [][\A r \in Workers :
          Finishes(r, "create")
          => (/\ req'[r].result = "CREATED"
              /\ \E s \in stored' \ stored :
                    \A x \in stored : session_name[x] # session_name'[s])]_vars

\* The sum of the durations of a set of sessions.
RECURSIVE TotalDuration(_)
TotalDuration(S) ==
    IF S = {} THEN 0
    ELSE LET s == CHOOSE x \in S : TRUE
         IN duration[s] + TotalDuration(S \ {s})

\* The statistics of user u recomputed from the stored enrollments,
\* completion flags and durations.
AttendedStatistics(u) ==
    LET attended == {e.session : e \in {x \in enrollments :
                                            x.user = u
                                            /\ is_completed[x.session]}}
    IN [sessions_attended |-> Cardinality(attended),
        total_time_spent |-> TotalDuration(attended)]

\* C18: when complete_session has run for a session, the profile of every
\* user enrolled in it holds the number and the total duration of the
\* user's enrollments in completed sessions, and the request has changed
\* the profile of no user who is not enrolled in it; completing the session
\* again gives the same values.
C18_CompletionRecomputesProfiles ==
    [][\A r \in Workers :
          (req[r].op = "complete" /\ req[r].pc \notin {"idle", "done"})
          => /\ \A u \in RegularUsers :
                   ~ IsEnrolled(u, req[r].session)
                   => profile'[u] = profile[u]
             /\ (req'[r].pc = "done"
                 /\ req'[r].result \in {"OK", "SERVER_ERROR"})
                => \A u \in RegularUsers :
                      IsEnrolled(u, req[r].session)
                      => profile'[u] = AttendedStatistics(u)']_vars

\* C19: a purchase_or_renew request of a user whose balance is strictly
\* below the subscription cost ends with the insufficient-funds error and
\* changes neither a balance nor a Subscription row; a balance equal to the
\* cost is not refused.
C19_InsufficientFundsChangesNothing ==
    [][\A r \in Workers :
          At(r, "purchase", "deduct")
          => IF cash_balance[req[r].user] < SubscriptionCost
             THEN /\ req'[r].pc = "done"
                  /\ req'[r].result = "INSUFFICIENT_FUNDS"
                  /\ cash_balance' = cash_balance
                  /\ subscriptions' = subscriptions
                  /\ subscription_seq' = subscription_seq
             ELSE req'[r].result # "INSUFFICIENT_FUNDS"]_vars

\* One user, holding one hundredth less than the cost, was refused and still
\* holds that balance; the other paid with a balance equal to the cost.
C19_RefusedBelowCostServedAtCost ==
    /\ \E r \in Workers :
           /\ req[r].op = "purchase" /\ req[r].pc = "done"
           /\ req[r].result = "INSUFFICIENT_FUNDS"
           /\ cash_balance[req[r].user] = SubscriptionCost - 1
    /\ \E u \in RegularUsers :
           /\ cash_balance[u] = 0
           /\ \E sub \in subscriptions :
                  sub.user = u /\ sub.end_date >= SubscriptionDays

\* The active Subscription rows of a user.
ActiveSubscriptions(u) ==
    {sub \in subscriptions : sub.user = u /\ sub.is_active}

\* C20: a purchase_or_renew request that succeeds has taken exactly the
\* subscription cost off the user's balance, and either the user had an
\* active subscription, whose end_date is now 30 days later while no row was
\* added, or exactly one row was added for the user, active and ending 30
\* days from now; with requests served one after the other no user comes
\* to hold two active rows.
C20_PurchaseDebitsAndExtendsOrCreates ==
    [][/\ \A r \in Workers :
             (Finishes(r, "purchase")
              /\ req'[r].result \in {"EXTENDED", "CREATED"})
             => LET u == req[r].user IN
                /\ cash_balance'[u] = req[r].balance - SubscriptionCost
                /\ \A v \in Users \ {u} : cash_balance'[v] = cash_balance[v]
                /\ IF ActiveSubscriptions(u) # {}
                   THEN \E sub \in ActiveSubscriptions(u) :
                           subscriptions' = (subscriptions \ {sub}) \cup
                               {[sub EXCEPT !.end_date =
                                                sub.end_date + 30]}
                   ELSE \E sub \in subscriptions' \ subscriptions :
                           /\ subscriptions' = subscriptions \cup {sub}
                           /\ sub.user = u
                           /\ sub.is_active
                           /\ sub.end_date = now + 30
                           /\ \A x \in subscriptions : x.id # sub.id
       /\ \A u \in Users :
             Cardinality({sub \in subscriptions' :
                             sub.user = u /\ sub.is_active}) <= 1]_vars

\* u2 renewed the running subscription twice (end_date 2 + 30 + 30, still
\* one row), and u1, whose subscription the sweep had deactivated, bought a
\* new one that ends 30 days from now.
C20_RenewedTwiceAndBoughtAnew ==
    /\ \E sub \in subscriptions :
           /\ sub.user = "u2" /\ sub.is_active /\ sub.end_date = 62
    /\ Cardinality({sub \in subscriptions : sub.user = "u2"}) = 1
    /\ cash_balance["u2"] = 0
    /\ \E sub \in subscriptions :
           /\ sub.user = "u1" /\ sub.is_active
           /\ sub.end_date = now + 30 /\ sub.id >= 3
    /\ \E sub \in subscriptions : sub.user = "u1" /\ ~ sub.is_active

\* C21: two purchase_or_renew requests of one user that run at the same
\* time behave as if served one after the other: a request that passes the
\* balance check finds the stored balance covering the cost and leaves it
\* lower by exactly one cost, and the user never holds two active rows.
C21_PurchasesSerialized ==
    [][/\ \A r \in Workers :
             (At(r, "purchase", "deduct")
              /\ req'[r].pc = "get_active_subscription")
             => LET u == req[r].user IN
                /\ cash_balance[u] >= SubscriptionCost
                /\ cash_balance'[u] = cash_balance[u] - SubscriptionCost
       /\ \A u \in Users :
             Cardinality({sub \in subscriptions' :
                             sub.user = u /\ sub.is_active}) <= 1]_vars

\* C22: the debit and the subscription write are one atomic unit: no state
\* of the store holds the debit of a purchase whose subscription has been
\* neither created nor extended, so no handler stands between its
\* user.save() and its subscription write.
C22_DebitAndSubscriptionAtomic ==
    \A r \in Workers :
        ~ (req[r].op = "purchase"
           /\ req[r].pc \in {"get_active_subscription", "extend", "create"}
           /\ cash_balance[req[r].user] = req[r].balance - SubscriptionCost)

\* C24: a sweep reads exactly the rows that are active and have
\* end_date < now, sets is_active to false on each of them, keeps every
\* other row and every other field, and leaves no row for a second sweep
\* to change.
C24_SweepFlipsExactlyTheExpired ==
    [][/\ (expired = {} /\ expired' # {})
          => /\ expired' = {sub \in subscriptions :
                               sub.end_date < now /\ sub.is_active}
             /\ subscriptions' = subscriptions
       /\ (expired # {} /\ expired' # expired)
          => /\ \E sub \in expired :
                   /\ sub \in subscriptions
                   /\ sub.end_date < now /\ sub.is_active
                   /\ subscriptions' = (subscriptions \ {sub}) \cup
                                          {[sub EXCEPT !.is_active = FALSE]}
                   /\ expired' = expired \ {sub}
             /\ expired' = {}
                => \A sub \in subscriptions' :
                      ~ (sub.end_date < now' /\ sub.is_active)
       /\ expired' # expired
          => /\ cash_balance' = cash_balance
             /\ subscription_seq' = subscription_seq
             /\ now' = now
             /\ req' = req]_vars

\* After the clock moved on the sweep has deactivated the subscription of
\* u1 and a row u2 had not renewed, while the row u1 bought on the later day
\* is still active.
C24_SweptTwoKeptOne ==
    /\ now > SubscriptionDays
    /\ \E sub \in subscriptions :
           sub.user = "u1" /\ ~ sub.is_active /\ sub.end_date < now
    /\ \E sub \in subscriptions :
           sub.user = "u2" /\ ~ sub.is_active /\ sub.end_date < now
    /\ \E sub \in subscriptions :
           sub.user = "u1" /\ sub.is_active /\ sub.end_date > now
    /\ \A r \in Workers : req[r].pc = "idle"

\* C25: a sweep that runs while a subscription is renewed does not undo the
\* renewal: a save of the sweep leaves every row whose end_date is not in
\* the past as it is, active and with the extended end_date.
C25_SweepKeepsRenewal ==
    [][(subscriptions' # subscriptions /\ req' = req)
       => \A sub \in subscriptions :
             ~ (sub.end_date < now) => sub \in subscriptions']_vars

\* C26: stored session names are pairwise distinct in every state, also
\* when creations interleave between counting and saving: a creation whose
\* computed name is already stored fails on the unique index and stores
\* nothing.
C26_NamesDistinctUnderConcurrentCreation ==
    [][/\ \A s, t \in stored' :
             s # t => session_name'[s] # session_name'[t]
       /\ \A r \in Workers :
             (/\ At(r, "create", "save")
              /\ req'[r].pc = "done"
              /\ \E x \in stored : session_name[x] = req[r].instance.name)
             => /\ req'[r].result = "INTEGRITY_ERROR"
                /\ stored' = stored
                /\ session_name' = session_name]_vars

\* Two creations with base name "A" both counted no session and computed
\* "A #1": one is stored, the other was refused by the unique index.
C26_SameNameComputedTwice ==
    /\ req["w1"].op = "create" /\ req["w1"].result = "CREATED"
    /\ req["w2"].op = "create" /\ req["w2"].result = "INTEGRITY_ERROR"
    /\ req["w1"].name = <<"A">> /\ req["w2"].name = <<"A">>
    /\ Cardinality(stored) = 1
    /\ \E s \in stored : session_name[s] = Numbered(<<"A">>, 1)

\* C28: an update by the owning instructor that is accepted leaves
\* max_participants at or above the number of enrollments of the session.
C28_UpdateKeepsCapacityInvariant ==
    [][\A r \in Workers :
          (Finishes(r, "session_update") /\ req'[r].result = "OK")
          => LET s == req[r].session IN
             Cardinality({e \in enrollments' : e.session = s})
                <= max_participants'[s]]_vars

\* C29: in every state the profile of every user holds the number and the
\* total duration of the user's current enrollments in completed sessions.
C29_ProfileMatchesEnrollments ==
    \A u \in RegularUsers : profile[u] = AttendedStatistics(u)

\* C30: complete_session by the owning instructor succeeds whoever is
\* enrolled: the request returns success, the session is completed, and
\* the profile of every enrolled user who has one is recomputed.
C30_CompletionSucceedsForAnyEnrollment ==
    [][\A r \in Workers :
          (Finishes(r, "complete")
           /\ req'[r].result \notin {"NOT_FOUND", "FORBIDDEN"})
          => /\ req'[r].result = "OK"
             /\ is_completed'[req[r].session]
             /\ \A u \in RegularUsers :
                   IsEnrolled(u, req[r].session)
                   => profile'[u] = AttendedStatistics(u)']_vars

\* C27: when a purchase_or_renew request has succeeded, the user holds an
\* active Subscription whose end_date is later than the current time.
C27_EntitledAfterPurchase ==
    [][\A r \in Workers :
          (Finishes(r, "purchase")
           /\ req'[r].result \in {"EXTENDED", "CREATED"})
          => \E sub \in subscriptions' :
                /\ sub.user = req[r].user
                /\ sub.is_active
                /\ sub.end_date > now']_vars

\* C23: every balance is non-negative in every reachable state, whatever
\* the interleaving of add-funds and purchase_or_renew requests.
C23_BalanceNeverNegative ==
    \A u \in Users : cash_balance[u] >= 0

\* A purchase and an add-funds request of u1, who held exactly the cost,
\* were both served, the purchase saving last: the balance is zero.
C23_PurchaseOverAddFundsAtZero ==
    /\ cash_balance["u1"] = 0
    /\ req["w1"].op = "purchase" /\ req["w1"].pc = "done"
    /\ req["w1"].result \in {"EXTENDED", "CREATED"}
    /\ req["w2"].op = "add_funds" /\ req["w2"].pc = "done"
    /\ req["w2"].result = "FUNDS_ADDED"

====
